---- MODULE Spec2Model ----
(***************************************************************************)
(* Quotation comparison: field parsing, cost aggregation, procurement      *)
(* scoring and ranking (src/comparison.py), as a state machine.            *)
(*                                                                         *)
(* Representation of values                                                *)
(*   - a str is a sequence of one-character strings;                       *)
(*   - an Optional value is a sequence of length <= 1: None is << >>,      *)
(*     a present value v is << v >>;                                       *)
(*   - a float is a fixed-point integer: reference-currency amounts are    *)
(*     kept in units of 1/RateScale EUR, lead-time weeks in tenths,        *)
(*     scores in hundredths (the places the code rounds to).               *)
(***************************************************************************)
EXTENDS Integers, Sequences, FiniteSets, TLC

VARIABLES pc, quotations, items, comparison_data, scored_data, recommendation,
          llm_calls, engines, result, exchange_rates, args,
          outcomes, results_file, pdf_pos, extraction_errors, existing_names, data, data_pos

\* the state of the comparison driver (src/compare_quotations.py) next to its
\* quotations list: what the loader and the extractor will do on each file, the
\* content of results/extracted_quotations.json, and the driver's loop variables
driver_vars == <<outcomes, results_file, pdf_pos, extraction_errors, existing_names, data, data_pos>>

vars == <<pc, quotations, items, comparison_data, scored_data, recommendation,
          llm_calls, engines, result, exchange_rates, args, driver_vars>>

(***************************************************************************)
(* Optional values                                                         *)
(***************************************************************************)
None == << >>

Some(v) == << v >>

IsNone(o) == Len(o) = 0

Get(o) == o[1]

(***************************************************************************)
(* Characters and str methods                                              *)
(***************************************************************************)
Digits == <<"0", "1", "2", "3", "4", "5", "6", "7", "8", "9">>

UpperLetters == <<"A", "B", "C", "D", "E", "F", "G", "H", "I", "J", "K", "L", "M",
                  "N", "O", "P", "Q", "R", "S", "T", "U", "V", "W", "X", "Y", "Z">>

LowerLetters == <<"a", "b", "c", "d", "e", "f", "g", "h", "i", "j", "k", "l", "m",
                  "n", "o", "p", "q", "r", "s", "t", "u", "v", "w", "x", "y", "z">>

\* regex \d
IsDigit(c) == \E i \in 1..10 : Digits[i] = c

DigitVal(c) == (CHOOSE i \in 1..10 : Digits[i] = c) - 1

\* regex \s
IsSpace(c) == c \in {" ", "\t", "\n"}

LowerChar(c) ==
    IF \E i \in 1..26 : UpperLetters[i] = c
    THEN LowerLetters[CHOOSE i \in 1..26 : UpperLetters[i] = c]
    ELSE c

UpperChar(c) ==
    IF \E i \in 1..26 : LowerLetters[i] = c
    THEN UpperLetters[CHOOSE i \in 1..26 : LowerLetters[i] = c]
    ELSE c

\* str.lower()
lower(s) == [i \in 1..Len(s) |-> LowerChar(s[i])]

\* str.upper()
upper(s) == [i \in 1..Len(s) |-> UpperChar(s[i])]

\* sub occurs in s at position i
MatchAt(s, i, sub) ==
    /\ i >= 1
    /\ i + Len(sub) - 1 <= Len(s)
    /\ \A j \in 1..Len(sub) : s[i + j - 1] = sub[j]

\* the `in` operator on two str
Contains(s, sub) == \E i \in 1..(Len(s) + 1) : MatchAt(s, i, sub)

\* the last position of the maximal run of digits that starts at i (regex \d+, greedy)
DigitRunEnd(s, i) ==
    CHOOSE j \in i..Len(s) :
        /\ \A k \in i..j : IsDigit(s[k])
        /\ (j = Len(s) \/ ~IsDigit(s[j + 1]))

\* the first position >= i that is not whitespace (regex \s*, greedy); Len(s)+1 at the end
SkipSpaces(s, i) ==
    CHOOSE j \in i..(Len(s) + 1) :
        /\ \A k \in i..(j - 1) : IsSpace(s[k])
        /\ (j = Len(s) + 1 \/ ~IsSpace(s[j]))

RECURSIVE DigitsToNat(_, _, _)
\* int() of the digits s[i..j]; 0 for an empty range
DigitsToNat(s, i, j) ==
    IF j < i THEN 0 ELSE 10 * DigitsToNat(s, i, j - 1) + DigitVal(s[j])

RECURSIVE Pow10(_)
Pow10(k) == IF k = 0 THEN 1 ELSE 10 * Pow10(k - 1)

(***************************************************************************)
(* round(x, ndigits) on a fixed-point value: the nearest integer, a tie    *)
(* going to the even one.  Round(n, d) rounds n/d; RoundShifted(n, d, k)   *)
(* rounds n * 10^k / d, dividing digit by digit so that no intermediate    *)
(* product leaves the range of the model checker's integers (n >= 0,       *)
(* d > 0).                                                                  *)
(***************************************************************************)
RECURSIVE LongDiv(_, _, _)
\* quotient and remainder of n * 10^k by d
LongDiv(n, d, k) ==
    IF k = 0 THEN [q |-> n \div d, r |-> n % d]
    ELSE LET p == LongDiv(n, d, k - 1)
         IN  [q |-> p.q * 10 + (p.r * 10) \div d, r |-> (p.r * 10) % d]

RoundShifted(n, d, k) ==
    LET p == LongDiv(n, d, k)
    IN  IF 2 * p.r < d THEN p.q
        ELSE IF 2 * p.r > d THEN p.q + 1
        ELSE IF p.q % 2 = 0 THEN p.q ELSE p.q + 1

Round(n, d) == RoundShifted(n, d, 0)

Max(a, b) == IF a >= b THEN a ELSE b

Min(a, b) == IF a <= b THEN a ELSE b

\* min() and max() of a non-empty sequence of numbers
SeqMin(s) == CHOOSE m \in {s[i] : i \in 1..Len(s)} : \A i \in 1..Len(s) : m <= s[i]

SeqMax(s) == CHOOSE m \in {s[i] : i \in 1..Len(s)} : \A i \in 1..Len(s) : m >= s[i]

(***************************************************************************)
(* Literals of the source                                                  *)
(***************************************************************************)
NA == <<"N", "/", "A">>

STR_day == <<"d", "a", "y">>

STR_tag == <<"t", "a", "g">>

STR_month == <<"m", "o", "n", "t", "h">>

STR_monat == <<"m", "o", "n", "a", "t">>

STR_year == <<"y", "e", "a", "r">>

STR_jahr == <<"j", "a", "h", "r">>

STR_net == <<"n", "e", "t">>

STR_renewal == <<"r", "e", "n", "e", "w", "a", "l">>

STR_recurring == <<"r", "e", "c", "u", "r", "r", "i", "n", "g">>

\* `not text` / `text == "N/A"` on an Optional[str]
Falsy(o) == IsNone(o) \/ Get(o) = << >>

(***************************************************************************)
(* QuotationComparator._parse_lead_time                                    *)
(***************************************************************************)
\* lead_time_weeks is kept in tenths of a week
WeeksScale == 10

\* re.findall(r'\d+\.?\d*', s)[0] as a fraction [num, den]; None without a digit
FirstNumber(s) ==
    IF ~\E i \in 1..Len(s) : IsDigit(s[i]) THEN None
    ELSE LET i == CHOOSE p \in 1..Len(s) :
                      IsDigit(s[p]) /\ \A k \in 1..(p - 1) : ~IsDigit(s[k])
             e == DigitRunEnd(s, i)
             dot == e < Len(s) /\ s[e + 1] = "."
             frac == dot /\ e + 2 <= Len(s) /\ IsDigit(s[e + 2])
             f == IF frac THEN DigitRunEnd(s, e + 2) ELSE e + 1
             k == IF frac THEN f - (e + 1) ELSE 0
         IN  Some([num |-> DigitsToNat(s, i, e) * Pow10(k)
                             + (IF frac THEN DigitsToNat(s, e + 2, f) ELSE 0),
                   den |-> Pow10(k)])

\* LeadTimeUnit with a month counted as 4 weeks
LeadTimeUnit_MonthIsFour(low) ==
    IF Contains(low, STR_day) \/ Contains(low, STR_tag) THEN [mul |-> 1, div |-> 7]
    ELSE IF Contains(low, STR_month) \/ Contains(low, STR_monat) THEN [mul |-> 4, div |-> 1]
    ELSE IF Contains(low, STR_year) \/ Contains(low, STR_jahr) THEN [mul |-> 52, div |-> 1]
    ELSE [mul |-> 1, div |-> 1]

\* LeadTimeUnit testing for a month before testing for a day
LeadTimeUnit_MonthFirst(low) ==
    IF Contains(low, STR_month) \/ Contains(low, STR_monat) THEN [mul |-> 433, div |-> 100]
    ELSE IF Contains(low, STR_day) \/ Contains(low, STR_tag) THEN [mul |-> 1, div |-> 7]
    ELSE IF Contains(low, STR_year) \/ Contains(low, STR_jahr) THEN [mul |-> 52, div |-> 1]
    ELSE [mul |-> 1, div |-> 1]

\* the unit conversion selected by the lower-cased text, as a factor mul/div
LeadTimeUnit(low) ==
    IF Contains(low, STR_day) \/ Contains(low, STR_tag) THEN [mul |-> 1, div |-> 7]
    ELSE IF Contains(low, STR_month) \/ Contains(low, STR_monat) THEN [mul |-> 433, div |-> 100]
    ELSE IF Contains(low, STR_year) \/ Contains(low, STR_jahr) THEN [mul |-> 52, div |-> 1]
    ELSE [mul |-> 1, div |-> 1]

_parse_lead_time(lead_time) ==
    IF Falsy(lead_time) \/ Get(lead_time) = NA THEN None
    ELSE LET low == lower(Get(lead_time))
             numbers == FirstNumber(low)
         IN  IF IsNone(numbers) THEN None
             ELSE LET u == LeadTimeUnit(low)
                  IN  Some(Round(Get(numbers).num * u.mul * WeeksScale,
                                 Get(numbers).den * u.div))

(***************************************************************************)
(* QuotationComparator._parse_payment_terms                                *)
(***************************************************************************)
\* re.search(r'(\d+)\s*(?:days?|tag)', s): a match starts at i
DayMatchAt(s, i) ==
    /\ i <= Len(s)
    /\ IsDigit(s[i])
    /\ LET j == SkipSpaces(s, DigitRunEnd(s, i) + 1)
       IN  MatchAt(s, j, STR_day) \/ MatchAt(s, j, STR_tag)

\* re.search(r'net\s*(\d+)', s): a match starts at i
NetMatchAt(s, i) ==
    /\ MatchAt(s, i, STR_net)
    /\ LET j == SkipSpaces(s, i + 3)
       IN  j <= Len(s) /\ IsDigit(s[j])

\* _parse_payment_terms searching for "net <number>" before "<number> days"
_parse_payment_terms_NetFirst(payment_terms) ==
    IF Falsy(payment_terms) \/ Get(payment_terms) = NA THEN None
    ELSE LET s == lower(Get(payment_terms))
             days == {i \in 1..Len(s) : DayMatchAt(s, i)}
             nets == {i \in 1..Len(s) : NetMatchAt(s, i)}
         IN  IF nets # {}
             THEN LET i == CHOOSE p \in nets : \A q \in nets : p <= q
                      j == SkipSpaces(s, i + 3)
                  IN  Some(DigitsToNat(s, j, DigitRunEnd(s, j)))
             ELSE IF days # {}
             THEN LET i == CHOOSE p \in days : \A q \in days : p <= q
                  IN  Some(DigitsToNat(s, i, DigitRunEnd(s, i)))
             ELSE None

_parse_payment_terms(payment_terms) ==
    IF Falsy(payment_terms) \/ Get(payment_terms) = NA THEN None
    ELSE LET s == lower(Get(payment_terms))
             days == {i \in 1..Len(s) : DayMatchAt(s, i)}
             nets == {i \in 1..Len(s) : NetMatchAt(s, i)}
         IN  IF days # {}
             THEN LET i == CHOOSE p \in days : \A q \in days : p <= q
                  IN  Some(DigitsToNat(s, i, DigitRunEnd(s, i)))
             ELSE IF nets # {}
             THEN LET i == CHOOSE p \in nets : \A q \in nets : p <= q
                      j == SkipSpaces(s, i + 3)
                  IN  Some(DigitsToNat(s, j, DigitRunEnd(s, j)))
             ELSE None

(***************************************************************************)
(* convert_to_eur and EXCHANGE_RATES.  A rate is kept as an integer number *)
(* of 1/RateScale; an amount in EUR is kept in units of 1/RateScale EUR.   *)
(* EXCHANGE_RATES is the dict the module is loaded with; exchange_rates is *)
(* the module global that holds it, which convert_to_eur reads.            *)
(***************************************************************************)
RateScale == 10000

EXCHANGE_RATES == [USD |-> 9200, EUR |-> 10000, GBP |-> 11700, JPY |-> 62]

\* convert_to_eur without the shortcut for EUR
convert_to_eur_NoEurShortcut(amount, from_currency) ==
    amount * (IF from_currency \in DOMAIN exchange_rates
              THEN exchange_rates[from_currency]
              ELSE RateScale)

convert_to_eur(amount, from_currency) ==
    IF from_currency = "EUR" THEN amount * RateScale
    ELSE amount * (IF from_currency \in DOMAIN exchange_rates
                   THEN exchange_rates[from_currency]
                   ELSE RateScale)

(***************************************************************************)
(* Cost aggregation of one quotation (QuotationComparator)                 *)
(***************************************************************************)
RECURSIVE SumOver(_, _)
\* sum(f[y] for y in S)
SumOver(f, S) ==
    IF S = {} THEN 0
    ELSE LET y == CHOOSE z \in S : TRUE IN f[y] + SumOver(f, S \ {y})

\* sorted(keys): the keys of a dict in ascending order
RECURSIVE SortedKeys(_)
SortedKeys(S) ==
    IF S = {} THEN << >>
    ELSE LET y == CHOOSE z \in S : \A w \in S : z <= w
         IN  <<y>> \o SortedKeys(S \ {y})

\* dict.get(y, 1)
GetOr0_DefaultOne(d, y) == IF y \in DOMAIN d THEN d[y] ELSE 1

\* dict.get(y, 0)
GetOr0(d, y) == IF y \in DOMAIN d THEN d[y] ELSE 0

\* `tooling_cost_type and tooling_cost_type.lower() in ['renewal', 'recurring']`
IsRecurring(tooling_cost_type) ==
    /\ ~Falsy(tooling_cost_type)
    /\ lower(Get(tooling_cost_type)) \in {STR_renewal, STR_recurring}

\* `len(quote.annual_prices) if quote.annual_prices else 1`
YearsMultiplier(quote) ==
    IF DOMAIN quote.annual_prices # {} THEN Cardinality(DOMAIN quote.annual_prices) ELSE 1

_calculate_tooling_cost(quote) ==
    LET tooling_base == IF IsNone(quote.tooling_cost) THEN 0 ELSE Get(quote.tooling_cost)
    IN  IF IsRecurring(quote.tooling_cost_type)
        THEN tooling_base * YearsMultiplier(quote)
        ELSE tooling_base

\* TcoToolingPart adding the tooling cost once whatever its type
TcoToolingPart_Once(quote) ==
    IF ~IsNone(quote.tooling_cost) /\ Get(quote.tooling_cost) # 0
    THEN Get(quote.tooling_cost)
    ELSE 0

\* the tooling amount _calculate_tco adds to the sum of the yearly totals
TcoToolingPart(quote) ==
    IF ~IsNone(quote.tooling_cost) /\ Get(quote.tooling_cost) # 0
    THEN IF IsRecurring(quote.tooling_cost_type)
         THEN Get(quote.tooling_cost) * YearsMultiplier(quote)
         ELSE Get(quote.tooling_cost)
    ELSE 0

_calculate_tco(quote) ==
    LET total == SumOver([y \in DOMAIN quote.annual_prices |->
                            quote.annual_prices[y] * GetOr0(quote.annual_quantities, y)],
                         DOMAIN quote.annual_prices)
    IN  total + TcoToolingPart(quote)

\* a mean is kept as the fraction sum/count
_calculate_avg_unit_cost(quote) ==
    IF DOMAIN quote.annual_prices = {} THEN [num |-> 0, den |-> 1]
    ELSE [num |-> SumOver(quote.annual_prices, DOMAIN quote.annual_prices),
          den |-> Cardinality(DOMAIN quote.annual_prices)]

_calculate_avg_unit_cost_eur(quote) ==
    IF DOMAIN quote.annual_prices = {} THEN [num |-> 0, den |-> 1]
    ELSE [num |-> SumOver([y \in DOMAIN quote.annual_prices |->
                              convert_to_eur(quote.annual_prices[y], quote.currency)],
                          DOMAIN quote.annual_prices),
          den |-> Cardinality(DOMAIN quote.annual_prices)]

\* the breakdown dict as the list of its entries in insertion (ascending year) order
_get_price_breakdown_original(quote) ==
    LET years == SortedKeys(DOMAIN quote.annual_prices)
    IN  [k \in 1..Len(years) |->
            [year |-> years[k],
             unit_price |-> quote.annual_prices[years[k]],
             quantity |-> GetOr0(quote.annual_quantities, years[k]),
             total |-> quote.annual_prices[years[k]] * GetOr0(quote.annual_quantities, years[k])]]

_get_price_breakdown_eur(quote) ==
    LET years == SortedKeys(DOMAIN quote.annual_prices)
    IN  [k \in 1..Len(years) |->
            [year |-> years[k],
             unit_price |-> convert_to_eur(quote.annual_prices[years[k]], quote.currency),
             quantity |-> GetOr0(quote.annual_quantities, years[k]),
             total |-> convert_to_eur(quote.annual_prices[years[k]], quote.currency)
                          * GetOr0(quote.annual_quantities, years[k])]]

(***************************************************************************)
(* QuotationComparator._extract_incoterms                                  *)
(***************************************************************************)
INCOTERMS == << <<"E", "X", "W">>, <<"F", "C", "A">>, <<"F", "A", "S">>, <<"F", "O", "B">>,
                <<"C", "F", "R">>, <<"C", "I", "F">>, <<"C", "P", "T">>, <<"C", "I", "P">>,
                <<"D", "A", "P">>, <<"D", "P", "U">>, <<"D", "D", "P">> >>

\* _extract_incoterms returning the code that occurs first in the text
_extract_incoterms_FirstInText(delivery_terms) ==
    IF Falsy(delivery_terms) \/ Get(delivery_terms) = NA THEN NA
    ELSE LET text == upper(Get(delivery_terms))
             at(k) == {i \in 1..Len(text) : MatchAt(text, i, INCOTERMS[k])}
             hits == {k \in 1..Len(INCOTERMS) : at(k) # {}}
             first(k) == CHOOSE i \in at(k) : \A j \in at(k) : i <= j
         IN  IF hits = {} THEN NA
             ELSE INCOTERMS[CHOOSE k \in hits : \A j \in hits : first(k) <= first(j)]

_extract_incoterms(delivery_terms) ==
    IF Falsy(delivery_terms) \/ Get(delivery_terms) = NA THEN NA
    ELSE LET text == upper(Get(delivery_terms))
             hits == {k \in 1..Len(INCOTERMS) : Contains(text, INCOTERMS[k])}
         IN  IF hits = {} THEN NA
             ELSE INCOTERMS[CHOOSE k \in hits : \A j \in hits : k <= j]

(***************************************************************************)
(* datetime.strftime("%Y-%m-%d") of a date <<year, month, day>>            *)
(***************************************************************************)
RECURSIVE ZeroPad(_, _)
\* the decimal digits of n, zero-padded to at least `width` characters
ZeroPad(n, width) ==
    IF n < 10 /\ width <= 1 THEN <<Digits[n + 1]>>
    ELSE ZeroPad(n \div 10, width - 1) \o <<Digits[(n % 10) + 1]>>

strftime(date) ==
    ZeroPad(date[1], 4) \o <<"-">> \o ZeroPad(date[2], 2) \o <<"-">> \o ZeroPad(date[3], 2)

(***************************************************************************)
(* QuotationComparator._build_comparison_item.  The item's "moq" is the    *)
(* quotation's int or the str "N/A": a value tagged with its type.         *)
(***************************************************************************)
MoqInt(n) == [type |-> "int", int |-> n, str |-> << >>]

MoqStr(s) == [type |-> "str", int |-> 0, str |-> s]

\* `x or "N/A"` on an Optional[str]
TextOrNA(o) == IF Falsy(o) THEN NA ELSE Get(o)

_build_comparison_item(quote) ==
    [supplier |-> quote.supplier_name,
     original_currency |-> quote.currency,
     total_cost_eur |-> convert_to_eur(_calculate_tco(quote), quote.currency),
     total_cost_original |-> _calculate_tco(quote),
     tooling_cost_eur |-> convert_to_eur(_calculate_tooling_cost(quote), quote.currency),
     tooling_cost_original |-> _calculate_tooling_cost(quote),
     tooling_cost_type |-> quote.tooling_cost_type,
     unit_cost_avg_eur |-> _calculate_avg_unit_cost_eur(quote),
     unit_cost_avg_original |-> _calculate_avg_unit_cost(quote),
     delivery_terms |-> TextOrNA(quote.delivery_terms),
     incoterms |-> _extract_incoterms(quote.delivery_terms),
     lead_time |-> TextOrNA(quote.lead_time),
     lead_time_weeks |-> _parse_lead_time(quote.lead_time),
     payment_terms |-> TextOrNA(quote.payment_terms),
     payment_days |-> _parse_payment_terms(quote.payment_terms),
     moq |-> IF IsNone(quote.moq) \/ Get(quote.moq) = 0 THEN MoqStr(NA) ELSE MoqInt(Get(quote.moq)),
     quotation_date |-> IF IsNone(quote.quotation_date) THEN NA ELSE strftime(Get(quote.quotation_date)),
     price_breakdown_eur |-> _get_price_breakdown_eur(quote),
     price_breakdown_original |-> _get_price_breakdown_original(quote),
     years_covered |-> SortedKeys(DOMAIN quote.annual_prices)]

(***************************************************************************)
(* ProcurementScorer.  A score is kept in hundredths (100.0 is 10000); the *)
(* WEIGHTS and the penalty are kept in hundredths of 1.                     *)
(***************************************************************************)
WEIGHTS == [tco |-> 35, delivery |-> 25, payment |-> 20, tooling |-> 10, moq |-> 10]

\* MinMaxScore never going below the score of a missing value
MinMaxScore_FloorTwenty(x, lo, hi) == Max(2000, RoundShifted(Max(0, (hi - lo) - (x - lo)), hi - lo, 4))

\* `100 * (1 - (x - lo) / (hi - lo))`, then `round(max(0, score), 2)`, for hi > lo
\* (in hundredths: 100 * 100 * ((hi - lo) - (x - lo)) / (hi - lo), rounded)
MinMaxScore(x, lo, hi) == RoundShifted(Max(0, (hi - lo) - (x - lo)), hi - lo, 4)

\* _score_tco scoring the distance from the minimum instead of from the maximum
_score_tco_Inverted(item, all_items) ==
    LET tcos == [k \in 1..Len(all_items) |-> all_items[k].total_cost_eur]
    IN  IF SeqMax(tcos) = SeqMin(tcos) THEN 10000
        ELSE RoundShifted(item.total_cost_eur - SeqMin(tcos), SeqMax(tcos) - SeqMin(tcos), 4)

_score_tco(item, all_items) ==
    LET tcos == [k \in 1..Len(all_items) |-> all_items[k].total_cost_eur]
        min_tco == SeqMin(tcos)
        max_tco == SeqMax(tcos)
    IN  IF max_tco = min_tco THEN 10000
        ELSE MinMaxScore(item.total_cost_eur, min_tco, max_tco)

_score_delivery(item, all_items) ==
    LET HasWeeks(d) == ~IsNone(d.lead_time_weeks)
        kept == SelectSeq(all_items, HasWeeks)
        lead_times == [k \in 1..Len(kept) |-> Get(kept[k].lead_time_weeks)]
    IN  IF Len(lead_times) = 0 \/ IsNone(item.lead_time_weeks) THEN 2000
        ELSE IF SeqMax(lead_times) = SeqMin(lead_times) THEN 10000
        ELSE MinMaxScore(Get(item.lead_time_weeks), SeqMin(lead_times), SeqMax(lead_times))

_score_payment(item, all_items) ==
    LET HasDays(d) == ~IsNone(d.payment_days)
        kept == SelectSeq(all_items, HasDays)
        payment_days_list == [k \in 1..Len(kept) |-> Get(kept[k].payment_days)]
    IN  IF Len(payment_days_list) = 0 \/ IsNone(item.payment_days) THEN 2000
        ELSE IF SeqMax(payment_days_list) = SeqMin(payment_days_list) THEN 10000
        ELSE MinMaxScore(Get(item.payment_days), SeqMin(payment_days_list),
                         SeqMax(payment_days_list))

_score_tooling(item, all_items) ==
    LET tooling_costs == [k \in 1..Len(all_items) |-> all_items[k].tooling_cost_eur]
        min_tooling == SeqMin(tooling_costs)
        max_tooling == SeqMax(tooling_costs)
    IN  IF max_tooling = min_tooling THEN 10000
        ELSE MinMaxScore(item.tooling_cost_eur, min_tooling, max_tooling)

\* ValidMoq without the test for a positive value
ValidMoq_AnyNumber(d) == d.moq.type = "int"

\* `isinstance(d.get("moq"), (int, float)) and d.get("moq") > 0`
ValidMoq(d) == d.moq.type = "int" /\ d.moq.int > 0

\* _score_moq without the check of the item's own MOQ
_score_moq_NoItemCheck(item, all_items) ==
    LET kept == SelectSeq(all_items, ValidMoq)
        moqs == [k \in 1..Len(kept) |-> kept[k].moq.int]
    IN  IF Len(moqs) = 0 THEN 2000
        ELSE IF SeqMax(moqs) = SeqMin(moqs) THEN 10000
        ELSE RoundShifted((SeqMax(moqs) - SeqMin(moqs)) - (item.moq.int - SeqMin(moqs)),
                          SeqMax(moqs) - SeqMin(moqs), 4)

_score_moq(item, all_items) ==
    LET kept == SelectSeq(all_items, ValidMoq)
        moqs == [k \in 1..Len(kept) |-> kept[k].moq.int]
    IN  IF Len(moqs) = 0 \/ ~ValidMoq(item) THEN 2000
        ELSE IF SeqMax(moqs) = SeqMin(moqs) THEN 10000
        ELSE MinMaxScore(item.moq.int, SeqMin(moqs), SeqMax(moqs))

\* `item.get(field) in [None, "N/A", ""]` on a str field of the item
TextMissing(text) == text \in {NA, << >>}

\* MoqMissing testing for 0 only
MoqMissing_ZeroOnly(moq) == moq.type = "int" /\ moq.int = 0

\* `item.get("moq") in [None, "N/A", 0]`
MoqMissing(moq) ==
    \/ moq.type = "str" /\ moq.str = NA
    \/ moq.type = "int" /\ moq.int = 0

\* the six conditions of missing_fields, in the order of the source
MissingFields(item) ==
    << TextMissing(item.lead_time),
       TextMissing(item.payment_terms),
       TextMissing(item.delivery_terms),
       TextMissing(item.quotation_date),
       MoqMissing(item.moq),
       item.tooling_cost_eur = 0 /\ item.tooling_cost_original = 0 >>

\* sum() of a list of bool
CountTrue(b) == Cardinality({k \in 1..Len(b) : b[k]})

_calculate_missing_data_penalty(item) == Min(100, CountTrue(MissingFields(item)) * 10)

_calculate_all_scores(item, all_items) ==
    [tco_score |-> _score_tco(item, all_items),
     delivery_score |-> _score_delivery(item, all_items),
     payment_score |-> _score_payment(item, all_items),
     tooling_score |-> _score_tooling(item, all_items),
     moq_score |-> _score_moq(item, all_items),
     missing_data_penalty |-> _calculate_missing_data_penalty(item)]

\* base_total in units of 1/10000: the scores in hundredths times the weights in hundredths
BaseTotal(scores) ==
    scores.tco_score * WEIGHTS.tco
    + scores.delivery_score * WEIGHTS.delivery
    + scores.payment_score * WEIGHTS.payment
    + scores.tooling_score * WEIGHTS.tooling
    + scores.moq_score * WEIGHTS.moq

\* _calculate_weighted_total taking the penalty off as points instead of as a share
_calculate_weighted_total_Subtract(scores) ==
    Round(Max(0, BaseTotal(scores) - scores.missing_data_penalty * 100 * 100), 100 * 100)

_calculate_weighted_total(scores) ==
    LET penalty_factor == 100 - scores.missing_data_penalty
    IN  Round(Max(0, BaseTotal(scores) * penalty_factor), 100 * 100)

(***************************************************************************)
(* Lists of items.  The dicts built by compare live in `items`, keyed by   *)
(* identity (the position of their quotation); a list of dicts is a        *)
(* sequence of identities, so comparison_data and scored_data share them.  *)
(***************************************************************************)
\* the dicts of a list, in list order
Deref(heap, list) == [k \in 1..Len(list) |-> heap[list[k]]]

\* d[key] = value on a dict, adding the key when it is absent
SetKey(d, key, value) == (key :> value) @@ d

RECURSIVE ScoreLoop_PartialCohort(_, _, _)
\* ScoreLoop normalising each dict against the dicts processed so far only
ScoreLoop_PartialCohort(heap, list, k) ==
    IF k > Len(list) THEN heap
    ELSE LET id == list[k]
             scores == _calculate_all_scores(heap[id], Deref(heap, SubSeq(list, 1, k)))
             item1 == SetKey(heap[id], "scores", scores)
             item2 == SetKey(item1, "total_score", _calculate_weighted_total(item1.scores))
         IN  ScoreLoop_PartialCohort([heap EXCEPT ![id] = item2], list, k + 1)

RECURSIVE ScoreLoop_NormalisesMoq(_, _, _)
\* ScoreLoop writing 0 over an MOQ that is not a positive number
ScoreLoop_NormalisesMoq(heap, list, k) ==
    IF k > Len(list) THEN heap
    ELSE LET id == list[k]
             scores == _calculate_all_scores(heap[id], Deref(heap, list))
             item1 == SetKey(heap[id], "scores", scores)
             item2 == SetKey(item1, "total_score", _calculate_weighted_total(item1.scores))
             item3 == IF ValidMoq(item2) THEN item2 ELSE [item2 EXCEPT !.moq = MoqInt(0)]
         IN  ScoreLoop_NormalisesMoq([heap EXCEPT ![id] = item3], list, k + 1)

RECURSIVE ScoreLoop(_, _, _)
\* the first loop of score_all, from position k of comparison_data on
ScoreLoop(heap, list, k) ==
    IF k > Len(list) THEN heap
    ELSE LET id == list[k]
             scores == _calculate_all_scores(heap[id], Deref(heap, list))
             item1 == SetKey(heap[id], "scores", scores)
             item2 == SetKey(item1, "total_score", _calculate_weighted_total(item1.scores))
         IN  ScoreLoop([heap EXCEPT ![id] = item2], list, k + 1)

\* InsertDesc with x put before the elements of equal key
InsertDesc_BeforeEqual(sorted, x, key) ==
    LET n == Cardinality({k \in 1..Len(sorted) : key[sorted[k]] > key[x]})
    IN  SubSeq(sorted, 1, n) \o <<x>> \o SubSeq(sorted, n + 1, Len(sorted))

\* where a stable descending sort puts x among the already sorted `sorted`:
\* after every element whose key is >= the key of x
InsertDesc(sorted, x, key) ==
    LET n == Cardinality({k \in 1..Len(sorted) : key[sorted[k]] >= key[x]})
    IN  SubSeq(sorted, 1, n) \o <<x>> \o SubSeq(sorted, n + 1, Len(sorted))

\* after every element whose key is <= the key of x
InsertAsc(sorted, x, key) ==
    LET n == Cardinality({k \in 1..Len(sorted) : key[sorted[k]] <= key[x]})
    IN  SubSeq(sorted, 1, n) \o <<x>> \o SubSeq(sorted, n + 1, Len(sorted))

RECURSIVE SortedDesc(_, _, _)
\* sorted(list, key=..., reverse=True), the key of each dict given by `key`: stable, the first k elements of list
SortedDesc(list, k, key) ==
    IF k = 0 THEN << >> ELSE InsertDesc(SortedDesc(list, k - 1, key), list[k], key)

RECURSIVE SortedAsc(_, _, _)
\* list.sort(key=...): stable, the first k elements of list
SortedAsc(list, k, key) ==
    IF k = 0 THEN << >> ELSE InsertAsc(SortedAsc(list, k - 1, key), list[k], key)

\* `for idx, item in enumerate(list, 1): item[key] = idx`
Stamp(heap, list, key) ==
    [id \in DOMAIN heap |->
        IF \E k \in 1..Len(list) : list[k] = id
        THEN SetKey(heap[id], key, CHOOSE k \in 1..Len(list) : list[k] = id)
        ELSE heap[id]]

\* score_all(comparison_data): the dicts after the call, and the list returned
score_all(heap, list) ==
    IF Len(list) = 0 THEN [heap |-> heap, scored |-> << >>]
    ELSE LET h1 == ScoreLoop(heap, list, 1)
             total_score == [id \in DOMAIN h1 |-> h1[id].total_score]
             scored == SortedDesc(list, Len(list), total_score)
         IN  [heap |-> Stamp(h1, scored, "final_ranking"), scored |-> scored]

(***************************************************************************)
(* LLMRecommendationEngine.generate_recommendation and                     *)
(* QuotationComparator._generate_summary                                   *)
(***************************************************************************)
\* what the model call may answer: no supplier and no score (both falsy), or the
\* supplier and score of the last dict of the list it was given
LLMReplies(list) ==
    {[recommended_supplier |-> "", total_score |-> 0],
     [recommended_supplier |-> list[Len(list)].supplier,
      total_score |-> list[Len(list)].total_score]}

\* the dict generate_recommendation returns for a non-empty list and a reply
RecommendationOf(list, reply) ==
    [recommended_supplier |-> IF reply.recommended_supplier # ""
                              THEN reply.recommended_supplier ELSE list[1].supplier,
     total_score |-> IF reply.total_score # 0 THEN reply.total_score
                     ELSE IF "total_score" \in DOMAIN list[1] THEN list[1].total_score ELSE 0,
     key_advantages |-> << >>,
     considerations |-> << >>]

\* the dict generate_recommendation returns for an empty list
NoSuppliers ==
    [recommended_supplier |-> None, total_score |-> 0,
     reasoning |-> "No suppliers available.",
     key_advantages |-> << >>, considerations |-> << >>]

\* _generate_summary taking the cheapest supplier as the best one
_generate_summary_BestIsCheapest(list) ==
    IF Len(list) = 0 THEN << >>
    ELSE LET costs == [k \in 1..Len(list) |-> list[k].total_cost_eur]
             cheapest == CHOOSE k \in 1..Len(list) : costs[k] = SeqMin(costs)
         IN  [total_suppliers |-> Len(list),
              lowest_cost |-> SeqMin(costs),
              highest_cost |-> SeqMax(costs),
              cost_range |-> SeqMax(costs) - SeqMin(costs),
              best_supplier |-> list[cheapest].supplier,
              best_score |-> IF "total_score" \in DOMAIN list[cheapest]
                             THEN list[cheapest].total_score ELSE 0]

_generate_summary(list) ==
    IF Len(list) = 0 THEN << >>
    ELSE LET costs == [k \in 1..Len(list) |-> list[k].total_cost_eur]
         IN  [total_suppliers |-> Len(list),
              lowest_cost |-> SeqMin(costs),
              highest_cost |-> SeqMax(costs),
              cost_range |-> SeqMax(costs) - SeqMin(costs),
              best_supplier |-> list[1].supplier,
              best_score |-> IF "total_score" \in DOMAIN list[1] THEN list[1].total_score ELSE 0]

(***************************************************************************)
(* QuotationComparator.compare, one action per statement                   *)
(***************************************************************************)
\* Compare_Build without the early return for an empty cohort
Compare_Build_NoEarlyReturn ==
    /\ pc = "compare"
    /\ items' = [i \in 1..Len(quotations) |-> _build_comparison_item(quotations[i])]
    /\ comparison_data' = [i \in 1..Len(quotations) |-> i]
    /\ pc' = "score"
    /\ UNCHANGED <<quotations, scored_data, recommendation, llm_calls, result, engines, exchange_rates, args, driver_vars>>

\* `if not quotations: return {}`, else the list of built dicts
Compare_Build ==
    /\ pc = "compare"
    /\ IF Len(quotations) = 0
       THEN /\ result' = Some(<< >>)
            /\ pc' = "done"
            /\ UNCHANGED <<items, comparison_data>>
       ELSE /\ items' = [i \in 1..Len(quotations) |-> _build_comparison_item(quotations[i])]
            /\ comparison_data' = [i \in 1..Len(quotations) |-> i]
            /\ pc' = "score"
            /\ UNCHANGED result
    /\ UNCHANGED <<quotations, scored_data, recommendation, llm_calls, engines, exchange_rates, args, driver_vars>>

\* `scored_data = ProcurementScorer().score_all(comparison_data)`
Compare_Score ==
    /\ pc = "score"
    /\ LET r == score_all(items, comparison_data)
       IN  /\ items' = r.heap
           /\ scored_data' = r.scored
    /\ pc' = "cost_rank"
    /\ UNCHANGED <<quotations, comparison_data, recommendation, llm_calls, result, engines, exchange_rates, args, driver_vars>>

\* Compare_CostRank sorting on the cost in the quotation's own currency
Compare_CostRank_OriginalCurrency ==
    /\ pc = "cost_rank"
    /\ LET total_cost_original == [id \in DOMAIN items |-> items[id].total_cost_original]
           sorted == SortedAsc(comparison_data, Len(comparison_data), total_cost_original)
       IN  /\ comparison_data' = sorted
           /\ items' = Stamp(items, sorted, "cost_ranking")
    /\ pc' = "ranking"
    /\ UNCHANGED <<quotations, scored_data, recommendation, llm_calls, result, engines, exchange_rates, args, driver_vars>>

\* `comparison_data.sort(key=total_cost_eur)` and the cost_ranking loop
Compare_CostRank ==
    /\ pc = "cost_rank"
    /\ LET total_cost_eur == [id \in DOMAIN items |-> items[id].total_cost_eur]
           sorted == SortedAsc(comparison_data, Len(comparison_data), total_cost_eur)
       IN  /\ comparison_data' = sorted
           /\ items' = Stamp(items, sorted, "cost_ranking")
    /\ pc' = "ranking"
    /\ UNCHANGED <<quotations, scored_data, recommendation, llm_calls, result, engines, exchange_rates, args, driver_vars>>

\* `item.get("final_ranking", item.get("cost_ranking", 999))`
RankingOf(item) ==
    IF "final_ranking" \in DOMAIN item THEN item.final_ranking
    ELSE IF "cost_ranking" \in DOMAIN item THEN item.cost_ranking
    ELSE 999

\* `for item in scored_data: item["ranking"] = ...`
Compare_Ranking ==
    /\ pc = "ranking"
    /\ items' = [id \in DOMAIN items |->
                    IF \E k \in 1..Len(scored_data) : scored_data[k] = id
                    THEN SetKey(items[id], "ranking", RankingOf(items[id]))
                    ELSE items[id]]
    /\ pc' = "recommend"
    /\ UNCHANGED <<quotations, comparison_data, scored_data, recommendation, llm_calls, result, engines, exchange_rates, args, driver_vars>>

\* Compare_Recommend handing the cost-sorted comparison_data to the engine
Compare_Recommend_CostOrder ==
    /\ pc = "recommend"
    /\ IF Len(scored_data) = 0
       THEN /\ recommendation' = None
            /\ UNCHANGED <<llm_calls, engines>>
       ELSE /\ engines' = engines + 1
            /\ llm_calls' = Append(llm_calls, comparison_data)
            /\ \E reply \in LLMReplies(Deref(items, comparison_data)) :
                  recommendation' = Some(RecommendationOf(Deref(items, comparison_data), reply))
    /\ pc' = "return"
    /\ UNCHANGED <<quotations, items, comparison_data, scored_data, result, exchange_rates, args, driver_vars>>

\* `LLMRecommendationEngine().generate_recommendation(scored_data) if scored_data else None`:
\* for a non-empty list an engine is constructed and its model is called
Compare_Recommend ==
    /\ pc = "recommend"
    /\ IF Len(scored_data) = 0
       THEN /\ recommendation' = None
            /\ UNCHANGED <<llm_calls, engines>>
       ELSE /\ engines' = engines + 1
            /\ llm_calls' = Append(llm_calls, scored_data)
            /\ \E reply \in LLMReplies(Deref(items, scored_data)) :
                  recommendation' = Some(RecommendationOf(Deref(items, scored_data), reply))
    /\ pc' = "return"
    /\ UNCHANGED <<quotations, items, comparison_data, scored_data, result, exchange_rates, args, driver_vars>>

\* the construction of the engine raises (no API key), or the model call does:
\* compare propagates the exception
Compare_RecommendRaises ==
    /\ pc = "recommend"
    /\ Len(scored_data) > 0
    /\ engines' = engines + 1
    /\ \/ UNCHANGED llm_calls
       \/ llm_calls' = Append(llm_calls, scored_data)
    /\ pc' = "raised"
    /\ UNCHANGED <<quotations, items, comparison_data, scored_data, recommendation, result, exchange_rates, args, driver_vars>>

\* the dict compare returns (generated_at, a clock reading, left out)
Compare_Return ==
    /\ pc = "return"
    /\ result' = Some([comparison_table |-> scored_data,
                       summary |-> _generate_summary(Deref(items, scored_data)),
                       recommendation |-> recommendation])
    /\ pc' = "done"
    /\ UNCHANGED <<quotations, items, comparison_data, scored_data, recommendation, llm_calls, engines, exchange_rates, args, driver_vars>>

Next ==
    \/ Compare_Build
    \/ Compare_Score
    \/ Compare_CostRank
    \/ Compare_Ranking
    \/ Compare_Recommend
    \/ Compare_RecommendRaises
    \/ Compare_Return

(***************************************************************************)
(* The scorer and the recommendation engine called directly, on the list   *)
(* held in comparison_data                                                 *)
(***************************************************************************)
\* `ProcurementScorer().score_all(comparison_data)`, the list returned kept in result
ScoreAll_Call ==
    /\ pc = "score_all"
    /\ LET r == score_all(items, comparison_data)
       IN  /\ items' = r.heap
           /\ scored_data' = r.scored
           /\ result' = Some(r.scored)
    /\ pc' = "score_all_done"
    /\ UNCHANGED <<quotations, comparison_data, recommendation, llm_calls, engines, exchange_rates, args, driver_vars>>

\* `engine.generate_recommendation(comparison_data)` on an engine already constructed
GenerateRecommendation_Call ==
    /\ pc = "generate_recommendation"
    /\ IF Len(comparison_data) = 0
       THEN /\ recommendation' = Some(NoSuppliers)
            /\ UNCHANGED llm_calls
       ELSE /\ llm_calls' = Append(llm_calls, comparison_data)
            /\ \E reply \in LLMReplies(Deref(items, comparison_data)) :
                  recommendation' = Some(RecommendationOf(Deref(items, comparison_data), reply))
    /\ pc' = "generate_recommendation_done"
    /\ UNCHANGED <<quotations, items, comparison_data, scored_data, engines, result, exchange_rates, args, driver_vars>>

\* the model call raises
GenerateRecommendation_Raises ==
    /\ pc = "generate_recommendation"
    /\ Len(comparison_data) > 0
    /\ llm_calls' = Append(llm_calls, comparison_data)
    /\ pc' = "raised"
    /\ UNCHANGED <<quotations, items, comparison_data, scored_data, recommendation, engines, result, exchange_rates, args, driver_vars>>

\* `convert_to_eur(amount, from_currency)` called directly, the value returned kept in result
ConvertToEur_Call ==
    /\ pc = "convert_to_eur"
    /\ result' = Some(convert_to_eur(args.amount, args.from_currency))
    /\ pc' = "convert_to_eur_done"
    /\ UNCHANGED <<quotations, items, comparison_data, scored_data, recommendation, llm_calls, engines, exchange_rates, args, driver_vars>>

NextApi ==
    \/ Next
    \/ ScoreAll_Call
    \/ GenerateRecommendation_Call
    \/ GenerateRecommendation_Raises

(***************************************************************************)
(* The comparison driver (src/compare_quotations.py): the extraction loop, *)
(* the load of missing suppliers from the results file, the save, and the  *)
(* call of compare.  An outcome tells what the loader and the extractor do *)
(* on a file: raised_by is "load", "extract" or "" (neither raises), and   *)
(* quotation is the record extracted.  An item of the results file is the  *)
(* quotation the ExtractedQuotation constructor builds, or None when it raises.    *)
(***************************************************************************)
pdf_files ==
    <<"pdfs/Word_Dummy_quote_filled(Word_variant1)_Guly_Display_AG.pdf",
      "pdfs/Word_Dummy_quote_filled(Word_variant2)_AOE_display_Limited.pdf",
      "pdfs/Word_dummy_quote_filled(Word_Variant4)Futura Components Ltd.pdf",
      "pdfs/Word_dummy_quote_filled(Word_Variant5)_TG_Display_Japan.pdf">>

\* the number of suppliers below which the driver loads the results file
ExpectedSuppliers == 4

\* str(e) of the exception an outcome raises
ErrorMessage(outcome) ==
    IF outcome.raised_by = "load" THEN "cannot read the file" ELSE "extraction failed"

\* Driver_FallbackItem appending every well-formed item
Driver_FallbackItem_NoNameCheck ==
    /\ pc = "fallback_loop"
    /\ data_pos <= Len(data)
    /\ IF data[data_pos] = None
       THEN /\ pc' = "save"
            /\ UNCHANGED <<quotations, data_pos>>
       ELSE /\ quotations' = Append(quotations, Get(data[data_pos]))
            /\ data_pos' = data_pos + 1
            /\ UNCHANGED pc
    /\ UNCHANGED <<items, comparison_data, scored_data, recommendation, llm_calls, engines, result, exchange_rates, args>>
    /\ UNCHANGED <<outcomes, results_file, pdf_pos, extraction_errors, existing_names, data>>

\* one turn of `for pdf_file in pdf_files`: the quotation is appended, or the
\* exception is caught and recorded and the loop goes on
Driver_Extract ==
    /\ pc = "extract_loop"
    /\ pdf_pos <= Len(pdf_files)
    /\ IF outcomes[pdf_pos].raised_by # ""
       THEN /\ extraction_errors' =
                  Append(extraction_errors, <<pdf_files[pdf_pos], ErrorMessage(outcomes[pdf_pos])>>)
            /\ UNCHANGED quotations
       ELSE /\ quotations' = Append(quotations, Get(outcomes[pdf_pos].quotation))
            /\ UNCHANGED extraction_errors
    /\ pdf_pos' = pdf_pos + 1
    /\ UNCHANGED <<pc, items, comparison_data, scored_data, recommendation, llm_calls, engines, result, exchange_rates, args>>
    /\ UNCHANGED <<outcomes, results_file, existing_names, data, data_pos>>

\* the loop is over; `if len(quotations) < 4 and os.path.exists(...)`: the file is
\* opened and parsed and existing_names is taken, or json.load raises and the
\* exception is caught
Driver_FallbackOpen ==
    /\ pc = "extract_loop"
    /\ pdf_pos > Len(pdf_files)
    /\ IF Len(quotations) < ExpectedSuppliers /\ results_file # None /\ Get(results_file).readable
       THEN /\ data' = Get(results_file).items
            /\ existing_names' = {quotations[k].supplier_name : k \in 1..Len(quotations)}
            /\ data_pos' = 1
            /\ pc' = "fallback_loop"
       ELSE /\ pc' = "save"
            /\ UNCHANGED <<data, existing_names, data_pos>>
    /\ UNCHANGED <<quotations, items, comparison_data, scored_data, recommendation, llm_calls, engines, result, exchange_rates, args>>
    /\ UNCHANGED <<outcomes, results_file, pdf_pos, extraction_errors>>

\* one turn of `for item in data`: the quotation is built and appended when its
\* supplier is not in existing_names; when building it raises, the exception is
\* caught outside the loop
Driver_FallbackItem ==
    /\ pc = "fallback_loop"
    /\ data_pos <= Len(data)
    /\ IF data[data_pos] = None
       THEN /\ pc' = "save"
            /\ UNCHANGED <<quotations, data_pos>>
       ELSE /\ quotations' = IF Get(data[data_pos]).supplier_name \notin existing_names
                             THEN Append(quotations, Get(data[data_pos]))
                             ELSE quotations
            /\ data_pos' = data_pos + 1
            /\ UNCHANGED pc
    /\ UNCHANGED <<items, comparison_data, scored_data, recommendation, llm_calls, engines, result, exchange_rates, args>>
    /\ UNCHANGED <<outcomes, results_file, pdf_pos, extraction_errors, existing_names, data>>

Driver_FallbackDone ==
    /\ pc = "fallback_loop"
    /\ data_pos > Len(data)
    /\ pc' = "save"
    /\ UNCHANGED <<quotations, items, comparison_data, scored_data, recommendation, llm_calls, engines, result, exchange_rates, args, driver_vars>>

\* `if quotations:` the results file is written with the quotations; then
\* `comparator.compare(quotations)` is called
Driver_Save ==
    /\ pc = "save"
    /\ results_file' = IF Len(quotations) > 0
                       THEN Some([readable |-> TRUE,
                                  items |-> [k \in 1..Len(quotations) |-> Some(quotations[k])]])
                       ELSE results_file
    /\ pc' = "compare"
    /\ UNCHANGED <<quotations, items, comparison_data, scored_data, recommendation, llm_calls, engines, result, exchange_rates, args>>
    /\ UNCHANGED <<outcomes, pdf_pos, extraction_errors, existing_names, data, data_pos>>

NextDriver ==
    \/ Driver_Extract
    \/ Driver_FallbackOpen
    \/ Driver_FallbackItem
    \/ Driver_FallbackDone
    \/ Driver_Save
    \/ Next

(***************************************************************************)
(* Inputs                                                                  *)
(***************************************************************************)
\* an ExtractedQuotation (src/models.py)
Quotation(supplier_name, currency, annual_prices, annual_quantities, tooling_cost, tooling_cost_type, delivery_terms, payment_terms, lead_time, quotation_date, moq) ==
    [supplier_name |-> supplier_name, currency |-> currency,
     annual_prices |-> annual_prices, annual_quantities |-> annual_quantities,
     tooling_cost |-> tooling_cost, tooling_cost_type |-> tooling_cost_type,
     delivery_terms |-> delivery_terms, payment_terms |-> payment_terms,
     lead_time |-> lead_time, quotation_date |-> quotation_date, moq |-> moq]

\* the largest cohort compared
MaxCohort == 3

\* the largest number of vocabulary tokens a generated text is made of
MaxTokens == 3

Quote_Guly ==
    Quotation("Guly", "EUR", (2027 :> 10) @@ (2028 :> 10), (2027 :> 100) @@ (2028 :> 100),
              Some(1000), Some(<<"o", "n", "e", "-", "t", "i", "m", "e">>), Some(<<"F", "O", "B", " ", "S", "h", "a", "n", "g", "h", "a", "i">>),
              Some(<<"N", "e", "t", " ", "3", "0">>), Some(<<"8", " ", "w", "e", "e", "k", "s">>),
              Some(<<2025, 10, 21>>), Some(100))

Quote_AOE ==
    Quotation("AOE", "USD", (2027 :> 12), (2027 :> 100) @@ (2028 :> 50),
              None, None, None,
              Some(<<"4", "5", " ", "d", "a", "y", "s">>), Some(<<"1", "4", " ", "d", "a", "y", "s">>),
              None, Some(500))

Quote_Futura ==
    Quotation("Futura", "EUR", (2027 :> 10) @@ (2028 :> 10), (2027 :> 100) @@ (2028 :> 100),
              Some(500), Some(<<"R", "e", "c", "u", "r", "r", "i", "n", "g">>), Some(<<"D", "D", "P", " ", "H", "a", "m", "b", "u", "r", "g">>),
              Some(<<"d", "u", "e", " ", "o", "n", " ", "r", "e", "c", "e", "i", "p", "t">>), Some(<<"2", " ", "m", "o", "n", "t", "h", "s">>),
              Some(<<2025, 9, 5>>), None)

Quote_TG ==
    Quotation("TG", "GBP", (2027 :> 9) @@ (2028 :> 9) @@ (2029 :> 9), (2027 :> 100) @@ (2028 :> 100) @@ (2029 :> 100),
              Some(350), None, Some(<<"C", "I", "F">>),
              None, None,
              Some(<<2025, 10, 1>>), None)

Quote_Nippon ==
    Quotation("Nippon", "JPY", (2027 :> 1500), (2027 :> 100),
              Some(20000), Some(<<"r", "e", "n", "e", "w", "a", "l">>), Some(<<"E", "X", "W">>),
              Some(<<"N", "e", "t", " ", "6", "0">>), Some(<<"1", " ", "y", "e", "a", "r">>),
              None, Some(250))

Quote_Blank ==
    Quotation("Blank", "EUR", << >>, << >>,
              None, None, None,
              None, None,
              None, None)

Quote_Mid ==
    Quotation("Mid", "EUR", (2027 :> 8), (2027 :> 250),
              Some(450), Some(<<"o", "n", "e", "-", "t", "i", "m", "e">>), Some(<<"D", "e", "l", "i", "v", "e", "r", "e", "d", " ", "a", "t", " ", "o", "u", "r", " ", "d", "o", "c", "k">>),
              Some(<<"3", "0", " ", "d", "a", "y", "s">>), Some(<<"3", " ", "w", "e", "e", "k", "s">>),
              Some(<<2025, 11, 30>>), Some(200))

Quote_Zero ==
    Quotation("Zero", "USD", (2028 :> 10), (2028 :> 120),
              Some(0), Some(<<"r", "e", "n", "e", "w", "a", "l">>), Some(<<"N", "/", "A">>),
              Some(<< >>), Some(<<"N", "/", "A">>),
              Some(<<2025, 1, 2>>), Some(0))

Quote_Neg ==
    Quotation("Neg", "EUR", (2027 :> 11) @@ (2029 :> 11), (2027 :> 100),
              Some(200), Some(<<"m", "o", "n", "t", "h", "l", "y">>), Some(<<"f", "c", "a", " ", "R", "o", "t", "t", "e", "r", "d", "a", "m">>),
              Some(<<"d", "u", "e", " ", "o", "n", " ", "r", "e", "c", "e", "i", "p", "t">>), None,
              Some(<<2025, 12, 1>>), Some(-5))

\* the quotations cohorts are drawn from.  Their amounts keep every rounded score
\* off an exact decimal tie (x.xx5), where the binary float of the code and the
\* decimal value of the model may round to different neighbours.
Catalogue == {Quote_Guly, Quote_AOE, Quote_Futura, Quote_TG, Quote_Nippon, Quote_Blank, Quote_Mid, Quote_Zero, Quote_Neg}

\* every list of at most n catalogue quotations
Cohorts(n) == UNION {[1..k -> Catalogue] : k \in 0..n}

RECURSIVE Texts(_, _)
\* every concatenation of at most n tokens of vocab
Texts(vocab, n) ==
    IF n = 0 THEN {<< >>}
    ELSE LET shorter == Texts(vocab, n - 1)
         IN  shorter \cup {t \o v : t \in shorter, v \in vocab}

LeadVocab ==
    {<<"8">>,
     <<"2", ".", "5">>,
     <<" ">>,
     <<"w", "e", "e", "k", "s">>,
     <<"D", "a", "y", "s">>,
     <<"t", "a", "g">>,
     <<"m", "o", "n", "t", "h">>,
     <<"M", "o", "n", "a", "t">>,
     <<"y", "e", "a", "r">>,
     <<"J", "a", "h", "r">>}

LeadExamples ==
    {<<"8", " ", "w", "e", "e", "k", "s">>,
     <<"1", "4", " ", "d", "a", "y", "s">>,
     <<"2", " ", "m", "o", "n", "t", "h", "s">>,
     <<"1", " ", "y", "e", "a", "r">>,
     <<"N", "/", "A">>,
     << >>,
     <<"4", "-", "6", " ", "W", "o", "c", "h", "e", "n">>,
     <<"c", "a", ".", " ", "1", "0", " ", "T", "a", "g", "e">>,
     <<"N", "/", "A", " ", "3">>,
     <<"n", "/", "a">>,
     <<"1", "2", ".">>}

PayVocab ==
    {<<"N", "e", "t", " ", "3", "0">>,
     <<"4", "5", " ", "d", "a", "y", "s">>,
     <<"1", "0", " ", "T", "a", "g">>,
     <<"n", "e", "t">>,
     <<"6", "0">>,
     <<" ">>,
     <<"d", "a", "y">>,
     <<",", " ">>,
     <<"d", "u", "e">>}

PayExamples ==
    {<<"N", "e", "t", " ", "3", "0">>,
     <<"4", "5", " ", "d", "a", "y", "s">>,
     <<"d", "u", "e", " ", "o", "n", " ", "r", "e", "c", "e", "i", "p", "t">>,
     <<"N", "/", "A">>,
     << >>,
     <<"n", "e", "t", " ", "3", "0", ",", " ", "2", "%", " ", "1", "0", " ", "d", "a", "y", "s">>,
     <<"2", "%", " ", "1", "0", " ", "d", "a", "y", "s", ",", " ", "n", "e", "t", " ", "3", "0">>,
     <<"N", "E", "T", "3", "0">>,
     <<"N", "e", "t", " ", "3", "0", " ", "d", "a", "y", "s">>}

ToolingTypes ==
    {None,
     Some(<< >>),
     Some(<<"o", "n", "e", "-", "t", "i", "m", "e">>),
     Some(<<"r", "e", "n", "e", "w", "a", "l">>),
     Some(<<"r", "e", "c", "u", "r", "r", "i", "n", "g">>),
     Some(<<"R", "e", "n", "e", "w", "a", "l">>),
     Some(<<"R", "E", "C", "U", "R", "R", "I", "N", "G">>),
     Some(<<"m", "o", "n", "t", "h", "l", "y">>)}

DeliveryVocab ==
    {<<"F", "O", "B">>,
     <<"d", "d", "p">>,
     <<"C", "i", "f">>,
     <<"c", "a">>,
     <<"a", "s">>,
     <<" ">>,
     <<"E", "X", "W">>,
     <<"x", "w">>}

DeliveryExamples ==
    {<<"F", "O", "B", " ", "S", "h", "a", "n", "g", "h", "a", "i">>,
     <<"D", "e", "l", "i", "v", "e", "r", "e", "d", " ", "a", "t", " ", "o", "u", "r", " ", "d", "o", "c", "k">>,
     <<"N", "/", "A">>,
     << >>,
     <<"D", "D", "P", " ", "H", "a", "m", "b", "u", "r", "g", ",", " ", "a", "l", "t", "e", "r", "n", "a", "t", "i", "v", "e", "l", "y", " ", "F", "O", "B">>,
     <<"f", "c", "a", " ", "R", "o", "t", "t", "e", "r", "d", "a", "m">>,
     <<"f", "r", "e", "e", " ", "o", "n", " ", "b", "o", "a", "r", "d">>,
     <<"C", "I", "P", "/", "C", "P", "T">>,
     <<"n", "/", "a">>}

LeadTexts == {None} \cup {Some(t) : t \in Texts(LeadVocab, MaxTokens) \cup LeadExamples}

PayTexts == {None} \cup {Some(t) : t \in Texts(PayVocab, MaxTokens) \cup PayExamples}

DeliveryTexts == {None} \cup {Some(t) : t \in Texts(DeliveryVocab, MaxTokens) \cup DeliveryExamples}

\* annual_prices over every subset of three years
PriceMaps == {[y \in Y |-> y - 2020] : Y \in SUBSET {2027, 2028, 2029}}

\* single quotations: the base quotation with one group of fields swept
LeadFamily == {[Quote_Guly EXCEPT !.lead_time = t] : t \in LeadTexts}

PayFamily == {[Quote_Guly EXCEPT !.payment_terms = t] : t \in PayTexts}

DeliveryFamily == {[Quote_Guly EXCEPT !.delivery_terms = t] : t \in DeliveryTexts}

ToolingFamily ==
    {[Quote_Guly EXCEPT !.tooling_cost = c, !.tooling_cost_type = ty, !.annual_prices = p] :
        c \in {None, Some(0), Some(1000)}, ty \in ToolingTypes, p \in PriceMaps}

MissingFamily ==
    {[Quote_Mid EXCEPT !.lead_time = l, !.payment_terms = p, !.delivery_terms = d,
                       !.quotation_date = q, !.moq = m, !.tooling_cost = c] :
        l \in {None, Some(<< >>), Some(NA), Some(<<"3", " ", "w", "e", "e", "k", "s">>)},
        p \in {None, Some(NA), Some(<<"N", "e", "t", " ", "3", "0">>)},
        d \in {None, Some(<< >>), Some(<<"F", "O", "B">>)},
        q \in {None, Some(<<2025, 11, 30>>)},
        m \in {None, Some(0), Some(-5), Some(200)},
        c \in {None, Some(0), Some(450)}}

ItemInputs == LeadFamily \cup PayFamily \cup DeliveryFamily \cup ToolingFamily \cup MissingFamily

\* the driver is not running: compare or a function of it is called directly
DriverIdle ==
    /\ outcomes = << >>
    /\ results_file = None
    /\ pdf_pos = 0
    /\ extraction_errors = << >>
    /\ existing_names = {}
    /\ data = << >>
    /\ data_pos = 0

InitWith(cohorts) ==
    /\ DriverIdle
    /\ exchange_rates = EXCHANGE_RATES
    /\ args = << >>
    /\ pc = "compare"
    /\ quotations \in cohorts
    /\ items = << >>
    /\ comparison_data = << >>
    /\ scored_data = << >>
    /\ recommendation = None
    /\ llm_calls = << >>
    /\ engines = 0
    /\ result = None

\* compare on a cohort of catalogue quotations
Init == InitWith(Cohorts(MaxCohort))

Spec == Init /\ [][Next]_vars

\* compare on a single quotation, its fields swept
InitItem == InitWith({<<q>> : q \in ItemInputs})

SpecItem == InitItem /\ [][Next]_vars

\* one of the three operations called on a cohort: compare on the quotations,
\* score_all on the dicts built from them, generate_recommendation on the scored list
InitApi ==
    /\ DriverIdle
    /\ exchange_rates = EXCHANGE_RATES
    /\ args = << >>
    /\ pc \in {"compare", "score_all", "generate_recommendation"}
    /\ quotations \in Cohorts(MaxCohort)
    /\ LET ids == [i \in 1..Len(quotations) |-> i]
           built == [i \in 1..Len(quotations) |-> _build_comparison_item(quotations[i])]
       IN  CASE pc = "compare" -> items = << >> /\ comparison_data = << >>
             [] pc = "score_all" -> items = built /\ comparison_data = ids
             [] pc = "generate_recommendation" ->
                    /\ items = score_all(built, ids).heap
                    /\ comparison_data = score_all(built, ids).scored
    /\ scored_data = << >>
    /\ recommendation = None
    /\ llm_calls = << >>
    /\ engines = 0
    /\ result = None

SpecApi == InitApi /\ [][NextApi]_vars

\* what the module global may hold when convert_to_eur is called: the dict as
\* loaded, that dict with another rate for EUR, with a currency added, with
\* currencies removed, and the empty dict
RateTables ==
    {EXCHANGE_RATES,
     [EXCHANGE_RATES EXCEPT !.EUR = 5000],
     ("CHF" :> 10600) @@ EXCHANGE_RATES,
     [c \in {"USD", "GBP"} |-> EXCHANGE_RATES[c]],
     [c \in {} |-> 0]}

CurrencyCodes == {"USD", "EUR", "GBP", "JPY", "CHF", "XXX", ""}

Amounts == {0, 1, 250, 12345, -40}

\* convert_to_eur called on an amount and a currency code
InitConvert ==
    /\ DriverIdle
    /\ exchange_rates \in RateTables
    /\ args \in [amount : Amounts, from_currency : CurrencyCodes]
    /\ pc = "convert_to_eur"
    /\ quotations = << >>
    /\ items = << >>
    /\ comparison_data = << >>
    /\ scored_data = << >>
    /\ recommendation = None
    /\ llm_calls = << >>
    /\ engines = 0
    /\ result = None

NextConvert == ConvertToEur_Call

SpecConvert == InitConvert /\ [][NextConvert]_vars

\* the longest list the results file holds
MaxSaved == 2

\* the quotation the extractor returns for each file, when it returns
FileQuotes == <<Quote_Guly, Quote_AOE, Quote_Futura, Quote_TG>>

\* what may happen on the files
Outcomes ==
    {o \in [1..Len(pdf_files) -> [raised_by : {"load", "extract", ""},
                                 quotation : {None} \cup {Some(q) : q \in Catalogue}]] :
        \A i \in 1..Len(pdf_files) :
            o[i].quotation = IF o[i].raised_by = "" THEN Some(FileQuotes[i]) ELSE None}

\* the items of a results file: a supplier the files hold, one they do not hold,
\* and an item ExtractedQuotation rejects
SavedItems == {Some(Quote_Guly), Some(Quote_Nippon), None}

\* no results file, one json.load rejects, or a list of items
ResultsFiles ==
    {None, Some([readable |-> FALSE, items |-> << >>])}
        \cup {Some([readable |-> TRUE, items |-> l]) :
                l \in UNION {[1..k -> SavedItems] : k \in 0..MaxSaved}}

\* the driver at its extraction loop
InitDriver ==
    /\ exchange_rates = EXCHANGE_RATES
    /\ args = << >>
    /\ outcomes \in Outcomes
    /\ results_file \in ResultsFiles
    /\ pdf_pos = 1
    /\ extraction_errors = << >>
    /\ existing_names = {}
    /\ data = << >>
    /\ data_pos = 0
    /\ pc = "extract_loop"
    /\ quotations = << >>
    /\ items = << >>
    /\ comparison_data = << >>
    /\ scored_data = << >>
    /\ recommendation = None
    /\ llm_calls = << >>
    /\ engines = 0
    /\ result = None

SpecDriver == InitDriver /\ [][NextDriver]_vars

(***************************************************************************)
(* Properties                                                              *)
(***************************************************************************)
\* score_all has returned and nothing has touched its result yet
ScoreAllReturned == pc = "cost_rank"

\* every dict carries its scores (score_all has run on a non-empty cohort)
Scored == pc \in {"cost_rank", "ranking", "recommend", "return", "raised"}

\* the dicts have been built
Built == pc \in {"score", "cost_rank", "ranking", "recommend", "return", "raised"}

Ids == 1..Len(quotations)

\* the item's MOQ is a number and positive
HasPositiveMoq(item) == item.moq.type = "int" /\ item.moq.int > 0

\* C1: after score_all on a non-empty cohort the returned list holds every input
\* item exactly once, in non-increasing total_score; final_ranking is the position
\* in the list (1..n, no shared rank); and items of equal total_score keep their
\* input order.
C1_RankingIsStableDescending ==
    ScoreAllReturned =>
        /\ Len(scored_data) = Len(quotations)
        /\ \A id \in Ids : Cardinality({k \in 1..Len(scored_data) : scored_data[k] = id}) = 1
        /\ \A k \in 1..Len(scored_data) : items[scored_data[k]].final_ranking = k
        /\ \A j, k \in 1..Len(scored_data) :
              j < k =>
                /\ items[scored_data[j]].total_score >= items[scored_data[k]].total_score
                /\ items[scored_data[j]].total_score = items[scored_data[k]].total_score
                      => scored_data[j] < scored_data[k]

\* a cohort of three that the sort reorders and that holds a tie: the first input
\* is ranked last, behind two items of equal total_score
C1_Witness ==
    /\ ScoreAllReturned
    /\ Len(scored_data) = 3
    /\ scored_data[3] = 1
    /\ items[scored_data[1]].total_score = items[scored_data[2]].total_score
    /\ items[scored_data[2]].total_score > items[scored_data[3]].total_score
    /\ scored_data[1] = 2
    /\ scored_data[2] = 3

InRange(score) == 0 <= score /\ score <= 10000

\* C2: each of the five criterion scores lies in [0, 100], the five WEIGHTS sum
\* to 1.0, and the composite total_score lies in [0, 100].
C2_ScoresWithinRange ==
    /\ WEIGHTS.tco + WEIGHTS.delivery + WEIGHTS.payment + WEIGHTS.tooling + WEIGHTS.moq = 100
    /\ Scored =>
          \A id \in Ids :
              /\ InRange(items[id].scores.tco_score)
              /\ InRange(items[id].scores.delivery_score)
              /\ InRange(items[id].scores.payment_score)
              /\ InRange(items[id].scores.tooling_score)
              /\ InRange(items[id].scores.moq_score)
              /\ InRange(items[id].total_score)

\* a cohort with an item whose MOQ is a negative number beside two different
\* positive MOQs, the larger of which scores 0.0, and with a total_score strictly
\* inside the range
C2_Witness ==
    /\ Scored
    /\ \E a, b, c \in Ids :
          /\ items[a].moq.type = "int" /\ items[a].moq.int < 0
          /\ HasPositiveMoq(items[b]) /\ HasPositiveMoq(items[c]) /\ items[b].moq.int < items[c].moq.int
          /\ items[c].scores.moq_score = 0
          /\ items[a].total_score > 0 /\ items[a].total_score < 10000

CohortTcos == {items[id].total_cost_eur : id \in Ids}

IsMinTco(v) == v \in CohortTcos /\ \A w \in CohortTcos : v <= w

IsMaxTco(v) == v \in CohortTcos /\ \A w \in CohortTcos : v >= w

\* C3: the TCO score is 100.0 for every item at the cohort minimum of
\* total_cost_eur and, when minimum and maximum differ, 0.0 for every item at the
\* maximum; when all items have the same total_cost_eur every item gets 100.0.
C3_TcoScoreAtExtremes ==
    Scored =>
        \A id \in Ids :
            /\ IsMinTco(items[id].total_cost_eur) => items[id].scores.tco_score = 10000
            /\ (IsMaxTco(items[id].total_cost_eur) /\ ~IsMinTco(items[id].total_cost_eur))
                  => items[id].scores.tco_score = 0
            /\ Cardinality(CohortTcos) = 1 => items[id].scores.tco_score = 10000

\* a cohort with two items at the minimum, one at the maximum
C3_Witness ==
    /\ Scored
    /\ \E a, b, c \in Ids :
          /\ a # b
          /\ items[a].total_cost_eur = items[b].total_cost_eur
          /\ items[a].total_cost_eur < items[c].total_cost_eur
          /\ items[a].scores.tco_score = 10000 /\ items[b].scores.tco_score = 10000
          /\ items[c].scores.tco_score = 0

\* the positive numeric MOQs of the cohort
PositiveMoqs == {items[id].moq.int : id \in {i \in Ids : HasPositiveMoq(items[i])}}

\* C4: the delivery score is exactly 20.0 when the item's lead_time_weeks is null
\* (so also when no item has one), the payment score exactly 20.0 when its
\* payment_days is null, the MOQ score exactly 20.0 when its MOQ is missing,
\* non-numeric or not positive; such an item still gets a total_score and a rank;
\* and the MOQ range is taken over the positive numeric MOQs only: the smallest of
\* them scores 100.0 and, when they differ, the largest 0.0.
C4_FallbackScoreIsTwenty ==
    Scored =>
        \A id \in Ids :
            /\ IsNone(items[id].lead_time_weeks) => items[id].scores.delivery_score = 2000
            /\ IsNone(items[id].payment_days) => items[id].scores.payment_score = 2000
            /\ (items[id].moq.type # "int" \/ items[id].moq.int <= 0)
                  => items[id].scores.moq_score = 2000
            /\ "total_score" \in DOMAIN items[id]
            /\ \E k \in 1..Len(scored_data) :
                  scored_data[k] = id /\ items[id].final_ranking = k
            /\ (HasPositiveMoq(items[id]) /\ \A m \in PositiveMoqs : items[id].moq.int <= m)
                  => items[id].scores.moq_score = 10000
            /\ (HasPositiveMoq(items[id]) /\ Cardinality(PositiveMoqs) > 1
                  /\ \A m \in PositiveMoqs : items[id].moq.int >= m)
                  => items[id].scores.moq_score = 0

\* a cohort with an item that has no lead time, no payment days and a negative
\* MOQ, beside two items with different positive MOQs
C4_Witness ==
    /\ Scored
    /\ \E a, b, c \in Ids :
          /\ IsNone(items[a].lead_time_weeks) /\ IsNone(items[a].payment_days)
          /\ items[a].moq.type = "int" /\ items[a].moq.int < 0
          /\ items[a].scores.delivery_score = 2000
          /\ items[a].scores.payment_score = 2000
          /\ items[a].scores.moq_score = 2000
          /\ HasPositiveMoq(items[b]) /\ HasPositiveMoq(items[c]) /\ items[b].moq.int < items[c].moq.int
          /\ ~IsNone(items[b].lead_time_weeks) /\ ~IsNone(items[c].payment_days)
          /\ items[b].scores.moq_score = 10000 /\ items[c].scores.moq_score = 0

\* an Optional[str] of the quotation that is missing, "N/A" or empty
TextAbsent(o) == o \in {None, Some(NA), Some(<< >>)}

\* the six missing-data conditions of a quotation and its item, as a set of names
MissingConditions(quote, item) ==
    {c \in {"lead_time", "payment_terms", "delivery_terms", "quotation_date", "moq", "tooling"} :
        \/ c = "lead_time" /\ TextAbsent(quote.lead_time)
        \/ c = "payment_terms" /\ TextAbsent(quote.payment_terms)
        \/ c = "delivery_terms" /\ TextAbsent(quote.delivery_terms)
        \/ c = "quotation_date" /\ quote.quotation_date = None
        \/ c = "moq" /\ quote.moq \in {None, Some(0)}
        \/ c = "tooling" /\ item.tooling_cost_original = 0 /\ item.tooling_cost_eur = 0}

\* C5: for every built item, missing_data_penalty is 10 times the number of true
\* conditions among: lead time text missing/"N/A"/empty; payment terms text
\* missing/"N/A"/empty; delivery terms text missing/"N/A"/empty; quotation date
\* missing; MOQ missing or zero; tooling cost zero in both currencies - capped at 100.
C5_PenaltyCountsMissingFields ==
    Scored =>
        \A id \in Ids :
            items[id].scores.missing_data_penalty
                = Min(100, 10 * Cardinality(MissingConditions(quotations[id], items[id])))

\* a quotation with an empty lead time text, an MOQ of 0 and a tooling cost of 0,
\* its other three fields present: penalty 30
C5_Witness ==
    /\ Scored
    /\ \E id \in Ids :
          /\ quotations[id].lead_time = Some(<< >>)
          /\ quotations[id].moq = Some(0)
          /\ quotations[id].tooling_cost = Some(0)
          /\ MissingConditions(quotations[id], items[id]) = {"lead_time", "moq", "tooling"}
          /\ items[id].scores.missing_data_penalty = 30

\* a supplier missing lead time, payment terms and MOQ and nothing else
MissingExactlyThree(id) ==
    MissingConditions(quotations[id], items[id]) = {"lead_time", "payment_terms", "moq"}

\* the unpenalized weighted total in units of 1/10000, the scores being in hundredths
UnpenalizedTotal(scores) ==
    scores.tco_score * 35 + scores.delivery_score * 25 + scores.payment_score * 20
    + scores.tooling_score * 10 + scores.moq_score * 10

\* C6: a supplier missing lead time, payment terms and MOQ, with delivery terms, a
\* quotation date and a non-zero tooling cost, has missing_data_penalty 30, and its
\* total_score is 70% of TCO*0.35 + Delivery*0.25 + Payment*0.20 + Tooling*0.10 +
\* MOQ*0.10, rounded to 2 decimals.
C6_ThreeMissingFieldsCostThirtyPercent ==
    Scored =>
        \A id \in Ids :
            MissingExactlyThree(id) =>
                /\ items[id].scores.missing_data_penalty = 30
                /\ items[id].total_score
                      = Round(UnpenalizedTotal(items[id].scores) * 70, 100 * 100)

\* such a supplier in a cohort of three, with a tooling score strictly inside the
\* range and a total_score that the penalty has lowered
C6_Witness ==
    /\ Scored
    /\ Len(quotations) = 3
    /\ \E id \in Ids :
          /\ MissingExactlyThree(id)
          /\ items[id].scores.tooling_score > 0 /\ items[id].scores.tooling_score < 10000
          /\ items[id].total_score > 0
          /\ items[id].total_score * 100 * 100 < UnpenalizedTotal(items[id].scores) * 100

\* the sum of price * quantity over the years of annual_prices
YearlyTotal(quote) ==
    SumOver([y \in DOMAIN quote.annual_prices |->
                quote.annual_prices[y] * GetOr0(quote.annual_quantities, y)],
            DOMAIN quote.annual_prices)

\* the type is "renewal" or "recurring" in any letter case
RecurringInAnyCase(tooling_cost_type) ==
    /\ tooling_cost_type # None
    /\ \E w \in {STR_renewal, STR_recurring} :
          /\ Len(Get(tooling_cost_type)) = Len(w)
          /\ \A i \in 1..Len(w) : Get(tooling_cost_type)[i] \in {w[i], UpperChar(w[i])}

\* C7: the tooling amount inside total_cost_original is tooling_cost_original; it is
\* the tooling cost once when the type is absent, "one-time" or any other string,
\* and the tooling cost times the number of years of annual_prices (times 1 when
\* there is none) when the type is "renewal" or "recurring" in any letter case.
C7_ToolingCostConsistent ==
    Built =>
        \A id \in Ids :
            LET quote == quotations[id]
                base == IF quote.tooling_cost = None THEN 0 ELSE Get(quote.tooling_cost)
                years == Cardinality(DOMAIN quote.annual_prices)
            IN  /\ items[id].total_cost_original - YearlyTotal(quote)
                      = items[id].tooling_cost_original
                /\ items[id].tooling_cost_original
                      = IF RecurringInAnyCase(quote.tooling_cost_type)
                        THEN base * (IF years = 0 THEN 1 ELSE years)
                        ELSE base

\* a tooling cost of 1000 of type "RECURRING" over 3 years: 3000 in both figures
C7_Witness ==
    /\ Built
    /\ \E id \in Ids :
          /\ quotations[id].tooling_cost = Some(1000)
          /\ quotations[id].tooling_cost_type
                = Some(<<"R", "E", "C", "U", "R", "R", "I", "N", "G">>)
          /\ Cardinality(DOMAIN quotations[id].annual_prices) = 3
          /\ items[id].tooling_cost_original = 3000
          /\ items[id].total_cost_original = YearlyTotal(quotations[id]) + 3000

\* the example texts of the claims
TEXT_8_weeks == <<"8", " ", "w", "e", "e", "k", "s">>

TEXT_14_days == <<"1", "4", " ", "d", "a", "y", "s">>

TEXT_2_months == <<"2", " ", "m", "o", "n", "t", "h", "s">>

TEXT_1_year == <<"1", " ", "y", "e", "a", "r">>

TEXT_Net_30 == <<"N", "e", "t", " ", "3", "0">>

TEXT_45_days == <<"4", "5", " ", "d", "a", "y", "s">>

TEXT_due_on_receipt == <<"d", "u", "e", " ", "o", "n", " ", "r", "e", "c", "e", "i", "p", "t">>

TEXT_net_30_2pc_10_days == <<"n", "e", "t", " ", "3", "0", ",", " ", "2", "%", " ", "1", "0", " ", "d", "a", "y", "s">>

\* the lead_time text of quotation id is `text`
LeadTimeIs(id, text) == quotations[id].lead_time = Some(text)

\* C8 (as amended): _parse_lead_time maps "8 weeks" to 8.0, "14 days" to 2.0,
\* "2 months" to 8.7, "1 year" to 52.0, and both "N/A" and "" to null.
C8_LeadTimeExamples ==
    Built =>
        \A id \in Ids :
            /\ LeadTimeIs(id, TEXT_8_weeks) => items[id].lead_time_weeks = Some(80)
            /\ LeadTimeIs(id, TEXT_14_days) => items[id].lead_time_weeks = Some(20)
            /\ LeadTimeIs(id, TEXT_2_months) => items[id].lead_time_weeks = Some(87)
            /\ LeadTimeIs(id, TEXT_1_year) => items[id].lead_time_weeks = Some(520)
            /\ LeadTimeIs(id, NA) => items[id].lead_time_weeks = None
            /\ LeadTimeIs(id, << >>) => items[id].lead_time_weeks = None

\* the item built from a quotation whose lead time is "2 months"
C8_Witness ==
    /\ Built
    /\ \E id \in Ids : LeadTimeIs(id, TEXT_2_months) /\ items[id].lead_time_weeks = Some(87)

\* C8 as stated: the same, with "2 months" mapped to 8.66 (866 hundredths of a week)
C8_Original ==
    Built =>
        \A id \in Ids :
            /\ LeadTimeIs(id, TEXT_8_weeks) => items[id].lead_time_weeks = Some(80)
            /\ LeadTimeIs(id, TEXT_14_days) => items[id].lead_time_weeks = Some(20)
            /\ LeadTimeIs(id, TEXT_2_months) =>
                  /\ items[id].lead_time_weeks # None
                  /\ Get(items[id].lead_time_weeks) * 100 = 866 * WeeksScale
            /\ LeadTimeIs(id, TEXT_1_year) => items[id].lead_time_weeks = Some(520)
            /\ LeadTimeIs(id, NA) => items[id].lead_time_weeks = None
            /\ LeadTimeIs(id, << >>) => items[id].lead_time_weeks = None

HasDigit(s) == \E i \in 1..Len(s) : IsDigit(s[i])

AllDigits(s, i, j) == \A k \in i..j : IsDigit(s[k])

AllSpaces(s, i, j) == \A k \in i..j : IsSpace(s[k])

\* s[p..e] is a numeral: digits, then optionally a point and further digits
IsNumeral(s, p, e) ==
    \E d \in p..e :
        /\ AllDigits(s, p, d)
        /\ (d = e \/ (s[d + 1] = "." /\ AllDigits(s, d + 2, e)))

\* the first numeric token of s, which holds a digit: the longest numeral that
\* starts at the first digit, as the fraction num/den
FirstNumeral(s) ==
    LET p == CHOOSE i \in 1..Len(s) : IsDigit(s[i]) /\ ~HasDigit(SubSeq(s, 1, i - 1))
        e == CHOOSE j \in p..Len(s) :
                 IsNumeral(s, p, j) /\ \A l \in (j + 1)..Len(s) : ~IsNumeral(s, p, l)
        token == SubSeq(s, p, e)
        digits == SelectSeq(token, IsDigit)
        point == {i \in 1..Len(token) : token[i] = "."}
        decimals == IF point = {} THEN 0 ELSE Len(token) - (CHOOSE i \in point : TRUE)
    IN  [num |-> DigitsToNat(digits, 1, Len(digits)), den |-> Pow10(decimals)]

\* the one conversion the lower-cased text selects, as a factor mul/div
ConversionOf(low) ==
    CASE Contains(low, STR_day) \/ Contains(low, STR_tag) -> [mul |-> 1, div |-> 7]
      [] ~(Contains(low, STR_day) \/ Contains(low, STR_tag))
            /\ (Contains(low, STR_month) \/ Contains(low, STR_monat)) -> [mul |-> 433, div |-> 100]
      [] ~(Contains(low, STR_day) \/ Contains(low, STR_tag))
            /\ ~(Contains(low, STR_month) \/ Contains(low, STR_monat))
            /\ (Contains(low, STR_year) \/ Contains(low, STR_jahr)) -> [mul |-> 52, div |-> 1]
      [] OTHER -> [mul |-> 1, div |-> 1]

\* tenths is n/d rounded to one decimal place: within half a tenth of it
IsRoundedToTenths(tenths, n, d) ==
    LET diff == 10 * n - tenths * d
    IN  2 * diff <= d /\ 2 * diff >= 0 - d

\* C9: for a lead time that is absent, "N/A" or any string, _parse_lead_time
\* returns null when the text has no numeric token; otherwise it takes the first
\* numeric token (integer or decimal), applies exactly one conversion chosen from
\* the lower-cased text (/7 for "day"/"tag", else *4.33 for "month"/"monat", else
\* *52 for "year"/"jahr", else none) and returns the result rounded to one decimal.
C9_LeadTimeParsing ==
    Built =>
        \A id \in Ids :
            LET lead_time == quotations[id].lead_time
                weeks == items[id].lead_time_weeks
            IN  IF lead_time = None \/ ~HasDigit(Get(lead_time))
                THEN weeks = None
                ELSE LET number == FirstNumeral(Get(lead_time))
                         unit == ConversionOf(lower(Get(lead_time)))
                     IN  /\ weeks # None
                         /\ Get(weeks) >= 0
                         /\ IsRoundedToTenths(Get(weeks), number.num * unit.mul,
                                              number.den * unit.div)

\* a text with a decimal number and both a day and a month keyword, not all in
\* lower case: 2.5 / 7 = 0.357... gives 0.4
C9_Witness ==
    /\ Built
    /\ \E id \in Ids :
          /\ quotations[id].lead_time # None
          /\ Get(quotations[id].lead_time) # lower(Get(quotations[id].lead_time))
          /\ Contains(lower(Get(quotations[id].lead_time)), STR_day)
          /\ Contains(lower(Get(quotations[id].lead_time)), STR_month)
          /\ HasDigit(Get(quotations[id].lead_time))
          /\ FirstNumeral(Get(quotations[id].lead_time)) = [num |-> 25, den |-> 10]
          /\ items[id].lead_time_weeks = Some(4)

\* the starts of the matches of "<number> day(s)" / "<number> tag" in s:
\* digits, then any white space, then "day" or "tag"
DayPatternStarts(s) ==
    {i \in 1..Len(s) :
        \E j \in i..Len(s) :
            /\ AllDigits(s, i, j)
            /\ \E k \in (j + 1)..Len(s) :
                  /\ AllSpaces(s, j + 1, k - 1)
                  /\ (MatchAt(s, k, STR_day) \/ MatchAt(s, k, STR_tag))}

\* the number of the match of the day pattern that starts at i
DayPatternNumber(s, i) ==
    LET j == CHOOSE e \in i..Len(s) :
                 /\ AllDigits(s, i, e)
                 /\ \E k \in (e + 1)..Len(s) :
                       /\ AllSpaces(s, e + 1, k - 1)
                       /\ (MatchAt(s, k, STR_day) \/ MatchAt(s, k, STR_tag))
    IN  DigitsToNat(s, i, j)

\* the starts of the matches of "net <number>" in s
NetPatternStarts(s) ==
    {i \in 1..Len(s) :
        /\ MatchAt(s, i, STR_net)
        /\ \E k \in (i + 3)..Len(s) : AllSpaces(s, i + 3, k - 1) /\ IsDigit(s[k])}

\* the number of the match of the net pattern that starts at i: all the digits
\* that follow "net" and the white space
NetPatternNumber(s, i) ==
    LET k == CHOOSE b \in (i + 3)..Len(s) : AllSpaces(s, i + 3, b - 1) /\ IsDigit(s[b])
        j == CHOOSE e \in k..Len(s) :
                 AllDigits(s, k, e) /\ (e = Len(s) \/ ~IsDigit(s[e + 1]))
    IN  DigitsToNat(s, k, j)

Leftmost(S) == CHOOSE i \in S : \A j \in S : i <= j

PaymentTermsIs(id, text) == quotations[id].payment_terms = Some(text)

\* C10: _parse_payment_terms returns null for absent or "N/A" input; otherwise the
\* number of the first "<number> day(s)" or "<number> tag" match if there is one
\* anywhere in the text, only if there is none the number of the first
\* case-insensitive "net <number>" match, and null if neither matches; "Net 30"
\* gives 30, "45 days" gives 45, "due on receipt" gives null.
C10_PaymentTermsParsing ==
    Built =>
        \A id \in Ids :
            LET payment_terms == quotations[id].payment_terms
                days == items[id].payment_days
                low == lower(Get(payment_terms))
            IN  /\ IF payment_terms = None \/ Get(payment_terms) = NA THEN days = None
                   ELSE IF DayPatternStarts(low) # {}
                   THEN days = Some(DayPatternNumber(low, Leftmost(DayPatternStarts(low))))
                   ELSE IF NetPatternStarts(low) # {}
                   THEN days = Some(NetPatternNumber(low, Leftmost(NetPatternStarts(low))))
                   ELSE days = None
                /\ PaymentTermsIs(id, TEXT_Net_30) => days = Some(30)
                /\ PaymentTermsIs(id, TEXT_45_days) => days = Some(45)
                /\ PaymentTermsIs(id, TEXT_due_on_receipt) => days = None

\* "net 30, 2% 10 days": both patterns match, the net pattern first in the text,
\* and the day pattern's number is returned
C10_Witness ==
    /\ Built
    /\ \E id \in Ids :
          /\ PaymentTermsIs(id, TEXT_net_30_2pc_10_days)
          /\ Leftmost(NetPatternStarts(TEXT_net_30_2pc_10_days))
                < Leftmost(DayPatternStarts(TEXT_net_30_2pc_10_days))
          /\ items[id].payment_days = Some(10)

TEXT_FOB_Shanghai == <<"F", "O", "B", " ", "S", "h", "a", "n", "g", "h", "a", "i">>

TEXT_Delivered_at_our_dock == <<"D", "e", "l", "i", "v", "e", "r", "e", "d", " ", "a", "t", " ", "o", "u", "r", " ", "d", "o", "c", "k">>

\* the eleven trade-term codes, in the fixed order of the claim
TermsInOrder ==
    << <<"E", "X", "W">>, <<"F", "C", "A">>, <<"F", "A", "S">>, <<"F", "O", "B">>, <<"C", "F", "R">>, <<"C", "I", "F">>,
       <<"C", "P", "T">>, <<"C", "I", "P">>, <<"D", "A", "P">>, <<"D", "P", "U">>, <<"D", "D", "P">> >>

\* the codes (as indices of TermsInOrder) that occur in the upper-cased text
TermsOccurring(text) == {k \in 1..Len(TermsInOrder) : Contains(upper(text), TermsInOrder[k])}

\* where in the upper-cased text code k first occurs
FirstOccurrence(text, k) ==
    Leftmost({i \in 1..Len(text) : MatchAt(upper(text), i, TermsInOrder[k])})

\* C11: _extract_incoterms returns "N/A" for absent or "N/A" input or when none of
\* the eleven codes occurs in the upper-cased text, and otherwise the code that is
\* first in the order EXW, FCA, FAS, FOB, CFR, CIF, CPT, CIP, DAP, DPU, DDP among
\* those occurring, wherever they occur; "FOB Shanghai" gives "FOB" and
\* "Delivered at our dock" gives "N/A".
C11_IncotermsByListPriority ==
    Built =>
        \A id \in Ids :
            LET delivery_terms == quotations[id].delivery_terms
                incoterms == items[id].incoterms
            IN  /\ IF delivery_terms = None \/ Get(delivery_terms) = NA
                      \/ TermsOccurring(Get(delivery_terms)) = {}
                   THEN incoterms = NA
                   ELSE incoterms = TermsInOrder[Leftmost(TermsOccurring(Get(delivery_terms)))]
                /\ delivery_terms = Some(TEXT_FOB_Shanghai) => incoterms = <<"F", "O", "B">>
                /\ delivery_terms = Some(TEXT_Delivered_at_our_dock) => incoterms = NA

\* a text, not in upper case, in which a code later in the order occurs before the
\* code that is returned
C11_Witness ==
    /\ Built
    /\ \E id \in Ids :
          /\ quotations[id].delivery_terms # None
          /\ Get(quotations[id].delivery_terms) # upper(Get(quotations[id].delivery_terms))
          /\ \E a, b \in TermsOccurring(Get(quotations[id].delivery_terms)) :
                /\ a < b
                /\ FirstOccurrence(Get(quotations[id].delivery_terms), b)
                      < FirstOccurrence(Get(quotations[id].delivery_terms), a)
                /\ items[id].incoterms = TermsInOrder[a]

\* C12: compare on an empty cohort returns an entirely empty result object without
\* raising and without constructing or invoking the recommendation engine;
\* score_all([]) returns an empty list; and generate_recommendation([]) returns the
\* empty recommendation (null supplier, score 0, placeholder reasoning, empty
\* advantage and consideration lists) without calling the model.
C12_EmptyCohort ==
    Len(quotations) = 0 =>
        /\ pc # "raised"
        /\ pc \notin {"score", "cost_rank", "ranking", "recommend", "return"}
        /\ engines = 0
        /\ llm_calls = << >>
        /\ pc = "done" => result = Some(<< >>) /\ recommendation = None
        /\ pc = "score_all_done" => result = Some(<< >>)
        /\ pc = "generate_recommendation_done" =>
              /\ recommendation # None
              /\ Get(recommendation).recommended_supplier = None
              /\ Get(recommendation).total_score = 0
              /\ Get(recommendation).reasoning = "No suppliers available."
              /\ Get(recommendation).key_advantages = << >>
              /\ Get(recommendation).considerations = << >>

\* compare has returned on an empty cohort
C12_Witness == Len(quotations) = 0 /\ pc = "done" /\ result = Some(<< >>)

\* compare has returned its result for a non-empty cohort
Returned == pc = "done" /\ Len(quotations) > 0

\* the ids of a list, as a set
IdsOf(list) == {list[k] : k \in 1..Len(list)}

\* C13: after compare on a non-empty cohort every item of comparison_table carries
\* cost_ranking and ranking; cost_ranking numbers the items 1..n by ascending
\* total_cost_eur, ties in input order, whatever the score order; and ranking
\* equals final_ranking for every item.
C13_CostRankingAndRanking ==
    Returned =>
        LET table == Get(result).comparison_table
        IN  /\ Len(table) = Len(quotations)
            /\ IdsOf(table) = Ids
            /\ \A id \in Ids :
                  /\ "cost_ranking" \in DOMAIN items[id]
                  /\ "ranking" \in DOMAIN items[id]
                  /\ items[id].ranking = items[id].final_ranking
            /\ {items[id].cost_ranking : id \in Ids} = 1..Len(quotations)
            /\ \A a, b \in Ids :
                  (items[a].total_cost_eur < items[b].total_cost_eur
                      \/ (items[a].total_cost_eur = items[b].total_cost_eur /\ a < b))
                  => items[a].cost_ranking < items[b].cost_ranking

\* a cohort of three with two items of equal cost, whose cost order is not the
\* score order and differs from the order by cost in the original currency
C13_Witness ==
    /\ Returned
    /\ Len(quotations) = 3
    /\ \E a, b \in Ids :
          /\ a < b
          /\ quotations[a] # quotations[b]
          /\ items[a].total_cost_eur = items[b].total_cost_eur
          /\ items[a].cost_ranking < items[b].cost_ranking
    /\ \E id \in Ids : items[id].cost_ranking # items[id].final_ranking
    /\ \E a, b \in Ids :
          /\ items[a].total_cost_eur < items[b].total_cost_eur
          /\ items[a].total_cost_original > items[b].total_cost_original

\* the keys a step of compare may add to an item
KeysAddedAt(at) ==
    CASE at = "score" -> {"scores", "total_score", "final_ranking"}
      [] at = "cost_rank" -> {"cost_ranking"}
      [] at = "ranking" -> {"ranking"}
      [] OTHER -> {}

\* the keys of an item as _build_comparison_item builds it
BuiltKeys ==
    {"supplier", "original_currency", "total_cost_eur", "total_cost_original",
     "tooling_cost_eur", "tooling_cost_original", "tooling_cost_type",
     "unit_cost_avg_eur", "unit_cost_avg_original", "delivery_terms", "incoterms",
     "lead_time", "lead_time_weeks", "payment_terms", "payment_days", "moq",
     "quotation_date", "price_breakdown_eur", "price_breakdown_original", "years_covered"}

\* a step taken once the items are built keeps every item and every field an item
\* has, and adds only the keys of that step
ItemsOnlyGainKeys ==
    pc \in {"score", "cost_rank", "ranking", "recommend", "return"} =>
        /\ DOMAIN items' = DOMAIN items
        /\ \A id \in DOMAIN items :
              /\ DOMAIN items[id] \subseteq DOMAIN items'[id]
              /\ \A key \in DOMAIN items[id] : items'[id][key] = items[id][key]
              /\ DOMAIN items'[id] \ DOMAIN items[id] \subseteq KeysAddedAt(pc)
        /\ IdsOf(comparison_data') = DOMAIN items
        /\ pc' # "score" => IdsOf(scored_data') = DOMAIN items

\* C14: once _build_comparison_item has produced an item, neither score_all nor
\* the ranking steps of compare change any of its cost or parsed fields: score_all
\* only adds scores, total_score and final_ranking, and compare only adds
\* cost_ranking and ranking, to the same item objects.
C14_BuiltFieldsNeverChange == [][ItemsOnlyGainKeys]_vars

\* a returned cohort of three whose items hold the built keys with the values
\* they were built with, next to the five added keys
C14_Witness ==
    /\ Returned
    /\ Len(quotations) = 3
    /\ \A id \in Ids :
          /\ DOMAIN items[id] = BuiltKeys \cup {"scores", "total_score", "final_ranking", "cost_ranking", "ranking"}
          /\ \A key \in BuiltKeys : items[id][key] = _build_comparison_item(quotations[id])[key]
    /\ \E id \in Ids : ~HasPositiveMoq(items[id])

RECURSIVE SumOfTotals(_, _)
\* the sum of the totals of the first k entries of a breakdown
SumOfTotals(breakdown, k) ==
    IF k = 0 THEN 0 ELSE SumOfTotals(breakdown, k - 1) + breakdown[k].total

\* C15: for every quotation the per-year breakdown has one entry for exactly the
\* years that are keys of annual_prices, in ascending year order, each with
\* quantity 0 when the year is missing from annual_quantities and total = unit
\* price x quantity; a year present only in annual_quantities contributes nothing;
\* and total_cost_original is the sum of the breakdown totals plus
\* tooling_cost_original.
C15_BreakdownMatchesTco ==
    Built =>
        \A id \in Ids :
            LET quote == quotations[id]
                breakdown == items[id].price_breakdown_original
                n == Len(breakdown)
            IN  /\ {breakdown[k].year : k \in 1..n} = DOMAIN quote.annual_prices
                /\ n = Cardinality(DOMAIN quote.annual_prices)
                /\ \A j, k \in 1..n : j < k => breakdown[j].year < breakdown[k].year
                /\ \A k \in 1..n :
                      LET year == breakdown[k].year
                      IN  /\ breakdown[k].unit_price = quote.annual_prices[year]
                          /\ breakdown[k].quantity =
                                IF year \in DOMAIN quote.annual_quantities
                                THEN quote.annual_quantities[year] ELSE 0
                          /\ breakdown[k].total = breakdown[k].unit_price * breakdown[k].quantity
                /\ items[id].total_cost_original
                      = SumOfTotals(breakdown, n) + items[id].tooling_cost_original

\* a quotation with a year priced but without quantity, a year with a quantity but
\* no price, a year with both, and a tooling cost
C15_Witness ==
    /\ Built
    /\ \E id \in Ids :
          /\ DOMAIN quotations[id].annual_prices \ DOMAIN quotations[id].annual_quantities # {}
          /\ DOMAIN quotations[id].annual_quantities \ DOMAIN quotations[id].annual_prices # {}
          /\ DOMAIN quotations[id].annual_quantities \cap DOMAIN quotations[id].annual_prices # {}
          /\ items[id].tooling_cost_original > 0
          /\ items[id].total_cost_original > items[id].tooling_cost_original
          /\ \E k \in 1..Len(items[id].price_breakdown_original) :
                items[id].price_breakdown_original[k].total = 0

\* a call of convert_to_eur returns: the amount unchanged for "EUR" whatever the
\* table holds, amount x rate for a code of the table, the amount unchanged for a
\* code that is not in the table; and the table is as before
ConvertReturns ==
    pc = "convert_to_eur" =>
        /\ pc' = "convert_to_eur_done"
        /\ exchange_rates' = exchange_rates
        /\ result' # None
        /\ Get(result') =
              IF args.from_currency = "EUR" THEN args.amount * RateScale
              ELSE IF args.from_currency \in DOMAIN exchange_rates
              THEN args.amount * exchange_rates[args.from_currency]
              ELSE args.amount * RateScale

\* C16: convert_to_eur never fails: for "EUR" it returns the amount unchanged
\* regardless of the contents of EXCHANGE_RATES, for a code present in the table
\* amount x rate, for a code absent from the table the amount unchanged (rate
\* 1.0); and it does not modify EXCHANGE_RATES.
C16_ConvertToEur == [][ConvertReturns]_vars

\* an EUR amount converted while the table holds a rate other than 1.0 for EUR
C16_Witness ==
    /\ pc = "convert_to_eur_done"
    /\ args.from_currency = "EUR"
    /\ args.amount # 0
    /\ "EUR" \in DOMAIN exchange_rates
    /\ exchange_rates["EUR"] # RateScale
    /\ result = Some(args.amount * RateScale)

\* value is the least / the greatest total_cost_eur of the cohort
IsLowestCost(value) ==
    (\E id \in Ids : items[id].total_cost_eur = value)
        /\ \A id \in Ids : items[id].total_cost_eur >= value

IsHighestCost(value) ==
    (\E id \in Ids : items[id].total_cost_eur = value)
        /\ \A id \in Ids : items[id].total_cost_eur <= value

\* C17: for a non-empty cohort the summary returned by compare has total_suppliers
\* = the number of input quotations, lowest_cost and highest_cost = the minimum and
\* maximum total_cost_eur of the cohort, cost_range = their difference, and
\* best_supplier / best_score = the supplier name and total_score of the item with
\* final_ranking 1, whose total_score is the maximum of the cohort.
C17_SummaryOfCohort ==
    Returned =>
        LET summary == Get(result).summary
        IN  /\ summary.total_suppliers = Len(quotations)
            /\ IsLowestCost(summary.lowest_cost)
            /\ IsHighestCost(summary.highest_cost)
            /\ summary.cost_range = summary.highest_cost - summary.lowest_cost
            /\ \E id \in Ids :
                  /\ items[id].final_ranking = 1
                  /\ \A other \in Ids : other # id => items[other].final_ranking # 1
                  /\ summary.best_supplier = items[id].supplier
                  /\ summary.best_supplier = quotations[id].supplier_name
                  /\ summary.best_score = items[id].total_score
                  /\ \A other \in Ids : items[other].total_score <= summary.best_score

\* a cohort of three suppliers of different cost whose best supplier is not the
\* cheapest one
C17_Witness ==
    /\ Returned
    /\ Len(quotations) = 3
    /\ Get(result).summary.cost_range > 0
    /\ Get(result).summary.best_score > 0
    /\ \E id \in Ids :
          /\ items[id].final_ranking = 1
          /\ items[id].total_cost_eur > Get(result).summary.lowest_cost
          /\ items[id].total_cost_eur < Get(result).summary.highest_cost

\* every item carries its scores and its three ranks
AllStamped ==
    \A id \in Ids :
        {"scores", "total_score", "final_ranking", "cost_ranking", "ranking"} \subseteq DOMAIN items[id]

\* the list is the whole cohort, each item once, in descending total_score
IsScoredCohort(list) ==
    /\ Len(list) = Len(quotations)
    /\ IdsOf(list) = Ids
    /\ \A j, k \in 1..Len(list) : j < k => items[list[j]].total_score >= items[list[k]].total_score

\* a step of compare: the engine is used at most once and only on fully stamped
\* items, it receives the scored cohort, nothing changes an item afterwards; a run
\* that has passed the recommendation statement has used the engine once, and
\* compare returns the list the engine received
RecommendationStep ==
    /\ engines' \in {engines, engines + 1}
    /\ engines' <= 1
    /\ Len(llm_calls') <= engines'
    /\ engines' # engines =>
          /\ Len(quotations) > 0
          /\ Built
          /\ AllStamped
          /\ items' = items
    /\ llm_calls' # llm_calls =>
          /\ engines' # engines
          /\ llm_calls' = <<scored_data>>
          /\ IsScoredCohort(scored_data)
    /\ engines >= 1 => items' = items /\ scored_data' = scored_data
    /\ (pc' \in {"return", "done", "raised"} /\ Len(quotations) > 0) => engines' = 1
    /\ (pc' \in {"return", "done"} /\ Len(quotations) > 0) => Len(llm_calls') = 1
    /\ (pc' = "done" /\ Len(quotations) > 0) =>
          Get(result').comparison_table = llm_calls'[1]

\* C18: in every run of compare on a non-empty cohort the recommendation engine
\* is invoked exactly once, and only after every item has been built, scored and
\* stamped with final_ranking, cost_ranking and ranking; the list it receives is the
\* full scored cohort in descending total_score order, the list that becomes
\* comparison_table; and no item field changes after that call.
C18_RecommendationOnceAfterRanking == [][RecommendationStep]_vars

\* compare has returned for a cohort of three whose cost order is not its score
\* order, after one call of the engine with the scored list
C18_Witness ==
    /\ Returned
    /\ Len(quotations) = 3
    /\ engines = 1
    /\ llm_calls = <<scored_data>>
    /\ scored_data # comparison_data
    /\ Get(result).comparison_table = scored_data
    /\ AllStamped

RECURSIVE ExtractedUpTo(_)
\* the quotations of the first k files on which neither the loader nor the
\* extractor raises, in file order
ExtractedUpTo(k) ==
    IF k = 0 THEN << >>
    ELSE IF outcomes[k].raised_by = ""
         THEN Append(ExtractedUpTo(k - 1), Get(outcomes[k].quotation))
         ELSE ExtractedUpTo(k - 1)

RECURSIVE FailedUpTo(_)
\* those of the first k files on which one of them raises, in file order
FailedUpTo(k) ==
    IF k = 0 THEN << >>
    ELSE IF outcomes[k].raised_by # ""
         THEN Append(FailedUpTo(k - 1), pdf_files[k])
         ELSE FailedUpTo(k - 1)

\* the supplier names of the freshly extracted quotations
FreshNames ==
    {ExtractedUpTo(Len(pdf_files))[k].supplier_name : k \in 1..Len(ExtractedUpTo(Len(pdf_files)))}

RECURSIVE LoadedUpTo(_)
\* those of the first k items of the loaded file whose supplier is not a fresh one
LoadedUpTo(k) ==
    IF k = 0 THEN << >>
    ELSE IF Get(data[k]).supplier_name \notin FreshNames
         THEN Append(LoadedUpTo(k - 1), Get(data[k]))
         ELSE LoadedUpTo(k - 1)

\* the extraction loop is over
ExtractionOver == pc # "extract_loop"

\* C19: in the extraction loop of the driver a file whose loading or extraction
\* raises contributes no quotation, is recorded in extraction_errors, and does not
\* stop the processing of the remaining files; after the loop quotations holds
\* exactly the successfully extracted records in file order; and a quotation loaded
\* afterwards from the results file is appended only if its supplier name is not
\* among the freshly extracted ones.
C19_ExtractionLoopAndFallback ==
    /\ pc = "extract_loop" =>
          /\ pdf_pos \in 1..(Len(pdf_files) + 1)
          /\ quotations = ExtractedUpTo(pdf_pos - 1)
          /\ [k \in 1..Len(extraction_errors) |-> extraction_errors[k][1]] = FailedUpTo(pdf_pos - 1)
    /\ ExtractionOver =>
          /\ pdf_pos = Len(pdf_files) + 1
          /\ [k \in 1..Len(extraction_errors) |-> extraction_errors[k][1]] = FailedUpTo(Len(pdf_files))
          /\ Len(quotations) + Len(extraction_errors) >= Len(pdf_files)
          /\ \E m \in 0..Len(data) :
                /\ \A k \in 1..m : data[k] # None
                /\ quotations = ExtractedUpTo(Len(pdf_files)) \o LoadedUpTo(m)
                /\ pc = "fallback_loop" => m = data_pos - 1
          /\ \A k \in (Len(ExtractedUpTo(Len(pdf_files))) + 1)..Len(quotations) :
                quotations[k].supplier_name \notin FreshNames

\* the driver is about to save: a file failed and a later one was extracted, the
\* results file held a supplier already extracted, which was skipped, and another
\* one, which was appended
C19_Witness ==
    /\ pc = "save"
    /\ \E i, j \in 1..Len(pdf_files) :
          i < j /\ outcomes[i].raised_by = "extract" /\ outcomes[j].raised_by = ""
    /\ \E i \in 1..Len(pdf_files) : outcomes[i].raised_by = "load"
    /\ Len(extraction_errors) = 2
    /\ Len(quotations) = 3
    /\ \E k \in 1..Len(data) : data[k] # None /\ Get(data[k]).supplier_name \in FreshNames
    /\ \E k \in 1..Len(data) : data[k] # None /\ quotations[Len(quotations)] = Get(data[k])

\* the orders in which a cohort of n quotations can be handed to score_all
OrdersOf(n) == {p \in [1..n -> 1..n] : \A a, b \in 1..n : a # b => p[a] # p[b]}

\* the dicts compare builds for the cohort, before they are scored
BuiltItems == [i \in 1..Len(quotations) |-> _build_comparison_item(quotations[i])]

\* the dicts after score_all was given the dicts `built` in the order p
ScoredInOrder(built, p) == score_all(built, p).heap

\* C20: scoring is independent of the input order and of the in-place processing
\* order: score_all on any permutation of the cohort gives each supplier the same
\* five criterion scores, the same missing_data_penalty and the same total_score;
\* only suppliers whose total_score is exactly equal may change their relative
\* position in final_ranking.
C20_ScoringIsOrderIndependent ==
    ScoreAllReturned =>
        \A built \in {BuiltItems} : \A p \in OrdersOf(Len(quotations)) :
            \A other \in {ScoredInOrder(built, p)} :
                /\ \A id \in Ids :
                      /\ other[id].scores = items[id].scores
                      /\ other[id].total_score = items[id].total_score
                /\ \A a, b \in Ids :
                      items[a].total_score # items[b].total_score =>
                          ((other[a].final_ranking < other[b].final_ranking)
                             <=> (items[a].final_ranking < items[b].final_ranking))

\* score_all has returned on three suppliers of three different totals that it did
\* not receive in ranking order, and on two suppliers of equal total whose
\* positions depend on the order received
C20_Witness ==
    /\ ScoreAllReturned
    /\ Len(quotations) = MaxCohort
    /\ scored_data # comparison_data
    /\ \A a, b \in Ids : a # b => items[a].total_score # items[b].total_score
    /\ \A id \in Ids : "scores" \in DOMAIN items[id] /\ items[id].scores.tco_score \in 0..10000
    /\ \E id \in Ids : items[id].scores.missing_data_penalty > 0

\* the dicts of the cohort that state a lead time, payment days, a valid MOQ
WithWeeks == {id \in Ids : ~IsNone(items[id].lead_time_weeks)}

WithDays == {id \in Ids : ~IsNone(items[id].payment_days)}

WithMoq == {id \in Ids : ValidMoq(items[id])}

\* the values stated
WeeksOf == [id \in WithWeeks |-> Get(items[id].lead_time_weeks)]

DaysOf == [id \in WithDays |-> Get(items[id].payment_days)]

MoqOf == [id \in WithMoq |-> items[id].moq.int]

\* at least two different values are stated
TwoDistinct(value) == \E a, b \in DOMAIN value : value[a] # value[b]

\* the dicts stating the largest value
Slowest(value) == {a \in DOMAIN value : \A b \in DOMAIN value : value[b] <= value[a]}

\* on one criterion: the dicts of the largest value score 0.0, those stating none
\* score 20.0, and so each of the latter scores strictly more than each of the former
MissingBeatsSlowest(value, score) ==
    TwoDistinct(value) =>
        /\ Slowest(value) # {}
        /\ \A a \in Slowest(value) : score[a] = 0
        /\ \A m \in Ids \ DOMAIN value : score[m] = 2000
        /\ \A a \in Slowest(value), m \in Ids \ DOMAIN value : score[m] > score[a]

\* C21: in a cohort with at least two distinct parseable lead times the item with
\* the largest lead_time_weeks gets delivery score 0.0 and every item without a
\* parseable lead time gets 20.0, so a supplier stating no lead time scores strictly
\* higher on delivery than the slowest supplier stating one; the same holds for
\* payment days and for MOQ.
C21_MissingValueBeatsSlowest ==
    Scored =>
        /\ MissingBeatsSlowest(WeeksOf, [id \in Ids |-> items[id].scores.delivery_score])
        /\ MissingBeatsSlowest(DaysOf, [id \in Ids |-> items[id].scores.payment_score])
        /\ MissingBeatsSlowest(MoqOf, [id \in Ids |-> items[id].scores.moq_score])

\* a scored cohort in which, on each of the three criteria, two suppliers state
\* different values and a third states none
C21_Witness ==
    /\ Scored
    /\ TwoDistinct(WeeksOf) /\ Ids \ WithWeeks # {}
    /\ TwoDistinct(DaysOf) /\ Ids \ WithDays # {}
    /\ TwoDistinct(MoqOf) /\ Ids \ WithMoq # {}
    /\ \E m \in Ids \ WithWeeks, a \in Slowest(WeeksOf) :
          items[m].scores.delivery_score = 2000 /\ items[a].scores.delivery_score = 0

====
